---- MODULE Spec2Model ----
(***************************************************************************)
(* The component-route RBAC controller of the cluster ingress operator    *)
(* (pkg/operator/controller/ingress-routes/controller.go, hash-keyed      *)
(* reconciler).  One Reconcile derives, from the cluster Ingress config,  *)
(* a Role and a RoleBinding per component route that is present in both   *)
(* spec.componentRoutes and status.componentRoutes, and deletes the       *)
(* labelled Roles and RoleBindings of routes that are no longer defined.  *)
(*                                                                         *)
(* A Reconcile is one action.  Its collaborator calls (cache.Get,         *)
(* cache.List, client.Create/Update/Delete) are operators from a run      *)
(* record to the SET of run records the call can produce: every call may  *)
(* fail, a generated name is any name of the pool, a list comes back in   *)
(* any order.                                                              *)
(* any order.  The informer cache that Get and List read is taken to be   *)
(* current with the API server that Create, Update and Delete write.      *)
(***************************************************************************)
EXTENDS Integers, Sequences, FiniteSets, TLC

VARIABLES
    config,        \* reconciler.config (Config{SecretNamespace})
    ingress,       \* the cluster Ingress configs of the API server: none or one
    roles,         \* the Roles of the API server
    roleBindings,  \* the RoleBindings of the API server
    last,          \* what the last Reconcile returned, NoRun after any write
                   \* by another actor
    served,        \* the hashes of the component routes of the last Reconcile
                   \* that returned no error
    budget,        \* writes by other actors still allowed (bounds the model)
    joined,        \* the intersector applied on its own: its result, once done
    workers,       \* two Reconciles that run at the same time, call by call:
                   \* where each one stands and what it holds
    queued,        \* the workqueue holds the request for the cluster Ingress
    faults         \* Reconciles that may still meet a failing call, where
                   \* failures come to an end

vars == <<config, ingress, roles, roleBindings, last, served, budget, joined, workers,
          queued, faults>>

----------------------------------------------------------------------------
(* Bounds *)

\* longest spec.componentRoutes / status.componentRoutes list
MaxRoutes == 2
\* writes by other actors (ingress updates, foreign object writes) per behaviour
MaxWrites == 1
\* changes of the Ingress per behaviour when nobody else writes Roles or
\* RoleBindings
MaxChanges == 2
\* writes of other actors to Roles and RoleBindings while the watches drive
\* the controller
MaxInterference == 2
\* Reconciles that meet a failing call before failures come to an end
MaxFaults == 1
\* changes of the Ingress while the workqueue drives the controller
MaxLiveChanges == 1

----------------------------------------------------------------------------
(* Constants of the program *)

componentRouteHashLabelKey == "ingress.operator.openshift.io/componentroutehash"
OpenShiftConfigNamespace == "openshift-config"
ServiceAccountKind == "ServiceAccount"

NoErr == ""

NoLabels == [k \in {} |-> ""]
HashLabel(hash) == (componentRouteHashLabelKey :> hash)

----------------------------------------------------------------------------
(* The stable key *)

\* util.Hash: a deterministic digest of the string, taken to be free of
\* collisions on the strings of the model.
Hash(s) == "hash(" \o s \o ")"

\* faulty variant: the key keeps the name only (as the name of a legacy role does)
nameOnly(namespace, name) == name

namespacedName(namespace, name) == namespace \o "/" \o name

----------------------------------------------------------------------------
(* configv1 types and the intersector *)

ComponentRouteSpec(namespace, name, hostname, secret) ==
    [Namespace |-> namespace, Name |-> name, Hostname |-> hostname,
     ServingCertKeyPairSecret |-> [Name |-> secret]]

ComponentRouteStatus(namespace, name, users) ==
    [Namespace |-> namespace, Name |-> name, DefaultHostname |-> "",
     ConsumingUsers |-> users, CurrentHostnames |-> <<>>, Conditions |-> <<>>]

\* faulty variant: the users are taken over only when the hostnames agree
newAggregatedIfHostnamesAgree(spec, status) ==
    [Name |-> spec.Name,
     Hash |-> Hash(namespacedName(spec.Namespace, spec.Name)),
     ServingCertificateName |-> spec.ServingCertKeyPairSecret.Name,
     ConsumingUsers |-> IF status.DefaultHostname = spec.Hostname
                        THEN status.ConsumingUsers ELSE <<>>]

newAggregatedComponentRoute(spec, status) ==
    [Name |-> spec.Name,
     Hash |-> Hash(namespacedName(spec.Namespace, spec.Name)),
     ServingCertificateName |-> spec.ServingCertKeyPairSecret.Name,
     ConsumingUsers |-> status.ConsumingUsers]

\* faulty variant: an entry already in the map is kept
RECURSIVE statusByHashFirstWins(_, _)
statusByHashFirstWins(componentRouteStatuses, i) ==
    IF i = 0 THEN [h \in {} |-> 0]
    ELSE LET m == statusByHashFirstWins(componentRouteStatuses, i - 1)
             componentRoute == componentRouteStatuses[i]
             componentRouteHash ==
                 Hash(namespacedName(componentRoute.Namespace, componentRoute.Name))
         IN [h \in DOMAIN m \cup {componentRouteHash} |->
                 IF h \in DOMAIN m THEN m[h] ELSE componentRoute]

\* the map componentRouteHashToComponentRouteStatus after the first i
\* status entries were assigned into it
RECURSIVE statusByHash(_, _)
statusByHash(componentRouteStatuses, i) ==
    IF i = 0 THEN [h \in {} |-> 0]
    ELSE LET m == statusByHash(componentRouteStatuses, i - 1)
             componentRoute == componentRouteStatuses[i]
             componentRouteHash ==
                 Hash(namespacedName(componentRoute.Namespace, componentRoute.Name))
         IN [h \in DOMAIN m \cup {componentRouteHash} |->
                 IF h = componentRouteHash THEN componentRoute ELSE m[h]]

\* faulty variant: a matching entry is put in front of the targets found so far
RECURSIVE appendMatchingReversed(_, _, _)
appendMatchingReversed(componentRouteSpecs, m, i) ==
    IF i = 0 THEN <<>>
    ELSE LET componentRouteSpec == componentRouteSpecs[i]
             hash == Hash(namespacedName(componentRouteSpec.Namespace,
                                         componentRouteSpec.Name))
             before == appendMatchingReversed(componentRouteSpecs, m, i - 1)
         IN IF hash \in DOMAIN m
            THEN <<newAggregatedComponentRoute(componentRouteSpec, m[hash])>> \o before
            ELSE before

RECURSIVE appendMatching(_, _, _)
appendMatching(componentRouteSpecs, m, i) ==
    IF i = 0 THEN <<>>
    ELSE LET componentRouteSpec == componentRouteSpecs[i]
             hash == Hash(namespacedName(componentRouteSpec.Namespace,
                                         componentRouteSpec.Name))
             before == appendMatching(componentRouteSpecs, m, i - 1)
         IN IF hash \in DOMAIN m
            THEN Append(before, newAggregatedComponentRoute(componentRouteSpec, m[hash]))
            ELSE before

\* faulty variant: the lists are joined by position
RECURSIVE joinByPosition(_, _, _)
joinByPosition(componentRouteSpecs, componentRouteStatuses, i) ==
    IF i = 0 THEN <<>>
    ELSE LET before == joinByPosition(componentRouteSpecs, componentRouteStatuses, i - 1)
         IN IF /\ i \in DOMAIN componentRouteStatuses
               /\ componentRouteSpecs[i].Namespace = componentRouteStatuses[i].Namespace
               /\ componentRouteSpecs[i].Name = componentRouteStatuses[i].Name
            THEN Append(before, newAggregatedComponentRoute(componentRouteSpecs[i],
                                                            componentRouteStatuses[i]))
            ELSE before

intersectingByPosition(componentRouteSpecs, componentRouteStatuses) ==
    joinByPosition(componentRouteSpecs, componentRouteStatuses, Len(componentRouteSpecs))

intersectingComponentRoutes(componentRouteSpecs, componentRouteStatuses) ==
    appendMatching(componentRouteSpecs,
                   statusByHash(componentRouteStatuses, Len(componentRouteStatuses)),
                   Len(componentRouteSpecs))

----------------------------------------------------------------------------
(* rbacv1 objects *)

PolicyRule(secretName) ==
    [Verbs |-> <<"get", "list", "watch">>, APIGroups |-> <<"">>,
     Resources |-> <<"secrets">>, ResourceNames |-> <<secretName>>]

Subject(serviceAccountName) ==
    [Kind |-> ServiceAccountKind, Name |-> serviceAccountName, APIGroup |-> ""]

RoleRef(roleName) ==
    [Kind |-> "Role", Name |-> roleName, APIGroup |-> "rbac.authorization.k8s.io"]

RECURSIVE subjectsOf(_)
subjectsOf(users) ==
    IF users = <<>> THEN <<>>
    ELSE <<Subject(Head(users))>> \o subjectsOf(Tail(users))

----------------------------------------------------------------------------
(* The collaborators.  A run record rs carries the API server's objects,   *)
(* the calls issued so far, the error of the last call and its result.     *)

\* the record of one collaborator call: the object's name and hash label (the
\* selector of a list), the result, and the names a list returned
Call(op, kind, name, hash, res, items) ==
    [op |-> op, kind |-> kind, name |-> name, hash |-> hash, res |-> res,
     items |-> items]

HashOf(obj) ==
    IF componentRouteHashLabelKey \in DOMAIN obj.Labels
    THEN obj.Labels[componentRouteHashLabelKey] ELSE ""

Store(rs, kind) == IF kind = "Role" THEN rs.roles ELSE rs.roleBindings

WithStore(rs, kind, objs) ==
    IF kind = "Role" THEN [rs EXCEPT !.roles = objs]
    ELSE [rs EXCEPT !.roleBindings = objs]

\* the call is logged; err is its error, name the object name it returns,
\* items the objects it lists
Logged(rs, call, err, name, items) ==
    [rs EXCEPT !.calls = Append(@, call), !.err = err, !.name = name, !.items = items]

SameObject(a, b) == a.Name = b.Name /\ a.Namespace = b.Namespace

\* every order in which a list call can return the objects of S
RECURSIVE ListOrders(_)
ListOrders(S) ==
    IF S = {} THEN {<<>>}
    ELSE UNION {{<<x>> \o rest : rest \in ListOrders(S \ {x})} : x \in S}

RECURSIVE NamesOf(_)
NamesOf(items) ==
    IF items = <<>> THEN <<>> ELSE <<Head(items).Name>> \o NamesOf(Tail(items))

\* client.MatchingLabels / client.HasLabels / client.InNamespace
Selects(opts, obj) ==
    /\ obj.Namespace = opts.InNamespace
    /\ opts.HasLabels \subseteq DOMAIN obj.Labels
    /\ \A k \in DOMAIN opts.MatchingLabels :
           k \in DOMAIN obj.Labels /\ obj.Labels[k] = opts.MatchingLabels[k]

\* faulty variant: the list is not filtered by label
everyResource(componentRoute) ==
    [MatchingLabels |-> NoLabels, HasLabels |-> {},
     InNamespace |-> OpenShiftConfigNamespace]

componentRouteResources(componentRoute) ==
    [MatchingLabels |-> HashLabel(componentRoute.Hash), HasLabels |-> {},
     InNamespace |-> OpenShiftConfigNamespace]

allComponentRouteResources ==
    [MatchingLabels |-> NoLabels, HasLabels |-> {componentRouteHashLabelKey},
     InNamespace |-> OpenShiftConfigNamespace]

\* r.cache.List: the selected objects in some order, or an error
cacheList(rs, kind, opts) ==
    LET sel == IF DOMAIN opts.MatchingLabels = {} THEN "*"
               ELSE opts.MatchingLabels[componentRouteHashLabelKey]
    IN {Logged(rs, Call("list", kind, "", sel, "Error", <<>>), "Error", "", <<>>)}
       \cup {Logged(rs, Call("list", kind, "", sel, "ok", NamesOf(items)), NoErr, "", items) :
                items \in ListOrders({o \in Store(rs, kind) : Selects(opts, o)})}

\* the name suffixes the API server can generate
Suffixes == {"1", "2"}

\* r.client.Create: the server names the object Name, or GenerateName plus a
\* suffix of its choice; a name in use is AlreadyExists
clientCreate(rs, kind, obj) ==
    LET names == IF obj.Name # "" THEN {obj.Name}
                 ELSE {obj.GenerateName \o s : s \in Suffixes}
        asked == IF obj.Name # "" THEN obj.Name ELSE obj.GenerateName
    IN {Logged(rs, Call("create", kind, asked, HashOf(obj), "Error", <<>>), "Error", "", <<>>)}
       \cup {IF \E o \in Store(rs, kind) : o.Name = n /\ o.Namespace = obj.Namespace
             THEN Logged(rs, Call("create", kind, n, HashOf(obj), "AlreadyExists", <<>>),
                         "AlreadyExists", "", <<>>)
             ELSE Logged(WithStore(rs, kind, Store(rs, kind) \cup {[obj EXCEPT !.Name = n]}),
                         Call("create", kind, n, HashOf(obj), "ok", <<>>), NoErr, n, <<>>)
             : n \in names}

\* r.client.Update: replaces the stored object of that name
clientUpdate(rs, kind, obj) ==
    {Logged(rs, Call("update", kind, obj.Name, HashOf(obj), "Error", <<>>), "Error", "", <<>>)}
    \cup {IF \E o \in Store(rs, kind) : SameObject(o, obj)
          THEN Logged(WithStore(rs, kind,
                          {o \in Store(rs, kind) : ~SameObject(o, obj)} \cup {obj}),
                      Call("update", kind, obj.Name, HashOf(obj), "ok", <<>>), NoErr, "", <<>>)
          ELSE Logged(rs, Call("update", kind, obj.Name, HashOf(obj), "NotFound", <<>>),
                      "NotFound", "", <<>>)}

\* r.client.Delete
clientDelete(rs, kind, obj) ==
    {Logged(rs, Call("delete", kind, obj.Name, HashOf(obj), "Error", <<>>), "Error", "", <<>>)}
    \cup {IF \E o \in Store(rs, kind) : SameObject(o, obj)
          THEN Logged(WithStore(rs, kind, {o \in Store(rs, kind) : ~SameObject(o, obj)}),
                      Call("delete", kind, obj.Name, HashOf(obj), "ok", <<>>), NoErr, "", <<>>)
          ELSE Logged(rs, Call("delete", kind, obj.Name, HashOf(obj), "NotFound", <<>>),
                      "NotFound", "", <<>>)}

\* faulty variant: no error is NotFound
neverNotFound(err) == FALSE

IsNotFound(err) == err = "NotFound"

\* r.cache.Get of the Ingress named by the request
cacheGet(rs, stored) ==
    {Logged(rs, Call("get", "Ingress", "cluster", "", "Error", <<>>), "Error", "", <<>>)}
    \cup {IF stored = {}
          THEN Logged(rs, Call("get", "Ingress", "cluster", "", "NotFound", <<>>),
                      "NotFound", "", <<>>)
          ELSE Logged(rs, Call("get", "Ingress", "cluster", "", "ok", <<>>), NoErr, "", <<>>)}

\* sequencing: the runs of S that have no error go on with F
Then(S, F(_)) == UNION {IF rs.err # NoErr THEN {rs} ELSE F(rs) : rs \in S}

----------------------------------------------------------------------------
(* The upsert engine *)

\* faulty variant: a duplicate that is gone already stops the run
RECURSIVE deleteDuplicatesStrict(_, _, _)
deleteDuplicatesStrict(rs, kind, rest) ==
    IF rest = <<>> THEN {rs}
    ELSE UNION {IF d.err # NoErr THEN {d}
                ELSE deleteDuplicatesStrict(d, kind, Tail(rest))
                : d \in clientDelete(rs, kind, Head(rest))}

\* faulty variant: the duplicates are left alone
keepDuplicates(rs, kind, rest) == {rs}

\* the loop "for i, cur := range Items { if i == 0 continue; Delete(cur) }",
\* faulty variant: a delete that failed is issued once more
RECURSIVE deleteDuplicatesRetrying(_, _, _)
deleteDuplicatesRetrying(rs, kind, rest) ==
    IF rest = <<>> THEN {rs}
    ELSE UNION {IF d.err # NoErr /\ ~IsNotFound(d.err)
                THEN clientDelete([d EXCEPT !.err = NoErr], kind, Head(rest))
                ELSE deleteDuplicatesRetrying([d EXCEPT !.err = NoErr], kind, Tail(rest))
                : d \in clientDelete(rs, kind, Head(rest))}

\* entered with rest = Items[1:]
RECURSIVE deleteDuplicates(_, _, _)
deleteDuplicates(rs, kind, rest) ==
    IF rest = <<>> THEN {rs}
    ELSE UNION {IF d.err # NoErr /\ ~IsNotFound(d.err) THEN {d}
                ELSE deleteDuplicates([d EXCEPT !.err = NoErr], kind, Tail(rest))
                : d \in clientDelete(rs, kind, Head(rest))}

\* the Role that ensureServiceCertKeyPairSecretRole builds
desiredRole(componentRoute) ==
    [Name |-> "", GenerateName |-> componentRoute.Name \o "-",
     Namespace |-> config.SecretNamespace,
     Labels |-> HashLabel(componentRoute.Hash),
     Rules |-> <<PolicyRule(componentRoute.ServingCertificateName)>>]

\* faulty variant: the existing role keeps its rules
updatedRoleKeepingRules(existingRole, role) == existingRole

\* existingRole.Rules = role.Rules
updatedRole(existingRole, role) == [existingRole EXCEPT !.Rules = role.Rules]

\* what ensureServiceCertKeyPairSecretRole does with the roleList.Items l.items
upsertRole(l, componentRoute) ==
    LET role == desiredRole(componentRoute)
        update(roleList, d) ==
            LET existingRole == updatedRole(roleList[1], role)
            IN {[u EXCEPT !.name = IF u.err # NoErr THEN "" ELSE existingRole.Name]
                : u \in clientUpdate(d, "Role", existingRole)}
    IN IF Len(l.items) = 0
       THEN clientCreate(l, "Role", role)
       ELSE Then(deleteDuplicates(l, "Role", Tail(l.items)),
                 LAMBDA d : update(l.items, d))

\* returns (rs.name, rs.err)
ensureServiceCertKeyPairSecretRole(rs, componentRoute) ==
    Then(cacheList(rs, "Role", componentRouteResources(componentRoute)),
         LAMBDA l : upsertRole(l, componentRoute))

\* faulty variant: the role reference is recomputed from the route's name
desiredRoleBindingByRouteName(componentRoute, roleName) ==
    [Name |-> roleName, GenerateName |-> "",
     Namespace |-> config.SecretNamespace,
     Labels |-> HashLabel(componentRoute.Hash),
     Subjects |-> subjectsOf(componentRoute.ConsumingUsers),
     RoleRef |-> RoleRef(componentRoute.Name)]

\* the RoleBinding that ensureServiceCertKeyPairSecretRoleBinding builds
desiredRoleBinding(componentRoute, roleName) ==
    [Name |-> roleName, GenerateName |-> "",
     Namespace |-> config.SecretNamespace,
     Labels |-> HashLabel(componentRoute.Hash),
     Subjects |-> subjectsOf(componentRoute.ConsumingUsers),
     RoleRef |-> RoleRef(roleName)]

\* faulty variant: the existing role-binding keeps its subjects
updatedRoleBindingKeepingSubjects(existingRoleBinding, roleBinding) ==
    [existingRoleBinding EXCEPT !.RoleRef = roleBinding.RoleRef]

\* faulty variant: the existing role-binding keeps its role reference
updatedRoleBindingKeepingRoleRef(existingRoleBinding, roleBinding) ==
    [existingRoleBinding EXCEPT !.Subjects = roleBinding.Subjects]

\* existingRoleBinding.Subjects, .RoleRef = roleBinding.Subjects, .RoleRef
updatedRoleBinding(existingRoleBinding, roleBinding) ==
    [existingRoleBinding EXCEPT !.Subjects = roleBinding.Subjects,
                                !.RoleRef = roleBinding.RoleRef]

\* what ensureServiceCertKeyPairSecretRoleBinding does with the
\* roleBindingList.Items l.items
upsertRoleBinding(l, componentRoute, roleName) ==
    LET roleBinding == desiredRoleBinding(componentRoute, roleName)
        update(roleBindingList, d) ==
            clientUpdate(d, "RoleBinding",
                         updatedRoleBinding(roleBindingList[1], roleBinding))
    IN IF Len(l.items) = 0
       THEN clientCreate(l, "RoleBinding", roleBinding)
       ELSE Then(deleteDuplicates(l, "RoleBinding", Tail(l.items)),
                 LAMBDA d : update(l.items, d))

\* returns rs.err
ensureServiceCertKeyPairSecretRoleBinding(rs, componentRoute, roleName) ==
    Then(cacheList(rs, "RoleBinding", componentRouteResources(componentRoute)),
         LAMBDA l : upsertRoleBinding(l, componentRoute, roleName))

----------------------------------------------------------------------------
(* The garbage collector *)

\* faulty variant: an object without the label is skipped
RECURSIVE cleanupItemsSkipping(_, _, _, _)
cleanupItemsSkipping(rs, kind, items, existingHashes) ==
    IF items = <<>> THEN {rs}
    ELSE LET item == Head(items)
         IN IF componentRouteHashLabelKey \in DOMAIN item.Labels
               /\ item.Labels[componentRouteHashLabelKey] \notin existingHashes
            THEN UNION {IF d.err # NoErr /\ ~IsNotFound(d.err) THEN {d}
                        ELSE cleanupItemsSkipping([d EXCEPT !.err = NoErr], kind,
                                                  Tail(items), existingHashes)
                        : d \in clientDelete(rs, kind, item)}
            ELSE cleanupItemsSkipping(rs, kind, Tail(items), existingHashes)

\* the loop over roleList.Items (roleBindingList.Items)
RECURSIVE cleanupItems(_, _, _, _)
cleanupItems(rs, kind, items, existingHashes) ==
    IF items = <<>> THEN {rs}
    ELSE LET item == Head(items)
         IN IF componentRouteHashLabelKey \notin DOMAIN item.Labels
            THEN {[rs EXCEPT !.err = "Unable to find expected componentRoute hash label"]}
            ELSE IF item.Labels[componentRouteHashLabelKey] \notin existingHashes
            THEN UNION {IF d.err # NoErr /\ ~IsNotFound(d.err) THEN {d}
                        ELSE cleanupItems([d EXCEPT !.err = NoErr], kind,
                                          Tail(items), existingHashes)
                        : d \in clientDelete(rs, kind, item)}
            ELSE cleanupItems(rs, kind, Tail(items), existingHashes)

\* the error of r.cache.List is dropped: the loop runs over what the list
\* holds, which is nothing when the call failed
cleanupList(rs, kind) ==
    {[l EXCEPT !.err = NoErr] : l \in cacheList(rs, kind, allComponentRouteResources)}

cleanupOrphanedResources(rs, componentRoutes) ==
    LET existingHashes == {cr.Hash : cr \in {componentRoutes[i] : i \in DOMAIN componentRoutes}}
        sweep(S, kind) ==
            UNION {cleanupItems(l, kind, l.items, existingHashes)
                   : l \in UNION {cleanupList(s, kind) : s \in S}}
    IN Then(sweep({rs}, "Role"), LAMBDA r : sweep({r}, "RoleBinding"))

----------------------------------------------------------------------------
(* The driver *)

\* the loop "for _, componentRoute := range componentRoutes"
RECURSIVE ensureEach(_, _)
ensureEach(rs, componentRoutes) ==
    IF componentRoutes = <<>> THEN {rs}
    ELSE LET componentRoute == Head(componentRoutes)
             binding(r) ==
                 LET named == [r EXCEPT !.roleNames = Append(@, r.name)]
                 IN Then({[b EXCEPT !.wrap = IF b.err # NoErr
                                             THEN "failed to create rolebinding" ELSE ""]
                          : b \in ensureServiceCertKeyPairSecretRoleBinding(
                                       named, componentRoute, r.name)},
                         LAMBDA b : ensureEach(b, Tail(componentRoutes)))
         IN Then({[r EXCEPT !.wrap = IF r.err # NoErr
                                     THEN "failed to create role" ELSE ""]
                  : r \in ensureServiceCertKeyPairSecretRole(rs, componentRoute)},
                 binding)

HashesOf(componentRoutes) == {componentRoutes[i].Hash : i \in DOMAIN componentRoutes}

\* faulty variant: every return asks for a requeue
ResultRequeued(rs, requeue) ==
    [ran |-> TRUE, Requeue |-> TRUE, err |-> rs.err, wrap |-> rs.wrap,
     calls |-> rs.calls, roleNames |-> rs.roleNames, hashes |-> rs.hashes,
     roles |-> rs.roles, roleBindings |-> rs.roleBindings]

Result(rs, requeue) ==
    [ran |-> TRUE, Requeue |-> requeue, err |-> rs.err, wrap |-> rs.wrap,
     calls |-> rs.calls, roleNames |-> rs.roleNames, hashes |-> rs.hashes,
     roles |-> rs.roles, roleBindings |-> rs.roleBindings]

\* every (Result, error) a Reconcile of the request can return, with the
\* objects it leaves
Reconcile(stored, rs) ==
    LET converge(g) ==
            LET in == CHOOSE i \in stored : TRUE
                componentRoutes ==
                    intersectingComponentRoutes(in.Spec.ComponentRoutes,
                                                in.Status.ComponentRoutes)
                collect(e) ==
                    {IF c.err # NoErr
                     THEN Result([c EXCEPT !.wrap = "failed to delete role"], TRUE)
                     ELSE Result(c, FALSE)
                     : c \in cleanupOrphanedResources(e, componentRoutes)}
            IN UNION {IF e.err # NoErr THEN {Result(e, TRUE)} ELSE collect(e)
                      : e \in ensureEach([g EXCEPT !.hashes = HashesOf(componentRoutes)],
                                         componentRoutes)}
    IN UNION {IF g.err # NoErr
              THEN IF IsNotFound(g.err)
                   THEN {Result([g EXCEPT !.err = NoErr], FALSE)}
                   ELSE {Result([g EXCEPT !.wrap = "failed to get ingress"], FALSE)}
              ELSE converge(g)
              : g \in cacheGet(rs, stored)}

----------------------------------------------------------------------------
(* The component routes, users and foreign objects of the model *)

SpecEntries ==
    {ComponentRouteSpec("default", "foo", "www.testing.com", "foo"),
     ComponentRouteSpec("default", "foo", "www.testing.com", "foo2"),
     ComponentRouteSpec("default", "bar", "www.testing.com", "bar")}

StatusEntries ==
    {ComponentRouteStatus("default", "foo", <<"foo", "bar">>),
     ComponentRouteStatus("default", "foo", <<"foo">>),
     ComponentRouteStatus("default", "bar", <<"bar">>)}

ListsOver(S) == UNION {[1..n -> S] : n \in 0..MaxRoutes}

Ingress(specs, statuses) ==
    [Name |-> "cluster", Spec |-> [ComponentRoutes |-> specs],
     Status |-> [ComponentRoutes |-> statuses]]

Ingresses == {Ingress(d, s) : d \in ListsOver(SpecEntries), s \in ListsOver(StatusEntries)}

\* objects other actors put into the namespace: one without the label, with
\* a name the API server can generate for default/foo, and one that
\* duplicates the label of default/foo
ForeignRoles ==
    {[Name |-> "foo-1", GenerateName |-> "", Namespace |-> OpenShiftConfigNamespace,
      Labels |-> NoLabels, Rules |-> <<PolicyRule("foo")>>],
     [Name |-> "foo-2", GenerateName |-> "foo-", Namespace |-> OpenShiftConfigNamespace,
      Labels |-> HashLabel(Hash(namespacedName("default", "foo"))),
      Rules |-> <<PolicyRule("stale")>>]}

ForeignRoleBindings ==
    {[Name |-> "foo-1", GenerateName |-> "", Namespace |-> OpenShiftConfigNamespace,
      Labels |-> NoLabels, Subjects |-> subjectsOf(<<"foo">>), RoleRef |-> RoleRef("manual")],
     [Name |-> "foo-2", GenerateName |-> "", Namespace |-> OpenShiftConfigNamespace,
      Labels |-> HashLabel(Hash(namespacedName("default", "foo"))),
      Subjects |-> subjectsOf(<<"stale">>), RoleRef |-> RoleRef("foo-2")]}

NoRun == [ran |-> FALSE, Requeue |-> FALSE, err |-> NoErr, wrap |-> "", did |-> {}]

NotJoined == [done |-> FALSE, componentRoutes |-> <<>>]

\* a Reconcile that has not been started
Idle ==
    [pc |-> "idle", todo |-> <<>>, items |-> <<>>, roleName |-> "", err |-> NoErr,
     calls |-> <<>>, log |-> {}]

NoWorkers == [w \in {1, 2} |-> Idle]

----------------------------------------------------------------------------
(* The state machine *)

\* the operator is deployed with SecretNamespace set to openshift-config
Init ==
    /\ config = [SecretNamespace |-> OpenShiftConfigNamespace]
    /\ ingress \in {{}} \cup {{i} : i \in Ingresses}
    /\ roles = {}
    /\ roleBindings = {}
    /\ last = NoRun
    /\ served = {}
    /\ budget = MaxWrites
    /\ joined = NotJoined
    /\ queued = TRUE
    /\ faults = 0
    /\ workers = NoWorkers

\* the run record a Reconcile starts from
Start ==
    [roles |-> roles, roleBindings |-> roleBindings, calls |-> <<>>, err |-> NoErr,
     wrap |-> "", name |-> "", items |-> <<>>, roleNames |-> <<>>, hashes |-> {}]

\* the writes a run carried out: <<op, kind, hash label>>
Did(calls) ==
    {<<calls[i].op, calls[i].kind, calls[i].hash>> :
        i \in {j \in DOMAIN calls : calls[j].op \in {"create", "update", "delete"}
                                     /\ calls[j].res = "ok"}}

\* the controller handles one request for the cluster Ingress
ReconcileRequest ==
    \E out \in Reconcile(ingress, Start) :
        /\ roles' = out.roles
        /\ roleBindings' = out.roleBindings
        /\ last' = [ran |-> TRUE, Requeue |-> out.Requeue, err |-> out.err,
                    wrap |-> out.wrap, did |-> Did(out.calls)]
        /\ served' = IF out.err = NoErr /\ ingress # {} THEN out.hashes ELSE served
        /\ UNCHANGED <<config, ingress, budget, joined, workers, queued, faults>>

Foreign ==
    /\ budget > 0 /\ budget' = budget - 1
    /\ last' = NoRun /\ queued' = TRUE
    /\ UNCHANGED <<config, served, joined, workers, faults>>

\* a cluster admin writes spec.componentRoutes
UpdateIngressSpec ==
    \E i \in ingress, d \in ListsOver(SpecEntries) :
        /\ d # i.Spec.ComponentRoutes
        /\ ingress' = {[i EXCEPT !.Spec.ComponentRoutes = d]}
        /\ Foreign /\ UNCHANGED <<roles, roleBindings>>

\* a consuming operator writes status.componentRoutes
UpdateIngressStatus ==
    \E i \in ingress, s \in ListsOver(StatusEntries) :
        /\ s # i.Status.ComponentRoutes
        /\ ingress' = {[i EXCEPT !.Status.ComponentRoutes = s]}
        /\ Foreign /\ UNCHANGED <<roles, roleBindings>>

DeleteIngress ==
    /\ ingress # {} /\ ingress' = {}
    /\ Foreign /\ UNCHANGED <<roles, roleBindings>>

ForeignCreateRole ==
    \E r \in ForeignRoles :
        /\ \A o \in roles : ~SameObject(o, r)
        /\ roles' = roles \cup {r}
        /\ Foreign /\ UNCHANGED <<ingress, roleBindings>>

ForeignCreateRoleBinding ==
    \E b \in ForeignRoleBindings :
        /\ \A o \in roleBindings : ~SameObject(o, b)
        /\ roleBindings' = roleBindings \cup {b}
        /\ Foreign /\ UNCHANGED <<ingress, roles>>

ForeignDeleteRole ==
    \E r \in roles :
        /\ roles' = roles \ {r}
        /\ Foreign /\ UNCHANGED <<ingress, roleBindings>>

ForeignDeleteRoleBinding ==
    \E b \in roleBindings :
        /\ roleBindings' = roleBindings \ {b}
        /\ Foreign /\ UNCHANGED <<ingress, roles>>

Next ==
    \/ ReconcileRequest
    \/ UpdateIngressSpec
    \/ UpdateIngressStatus
    \/ DeleteIngress
    \/ ForeignCreateRole
    \/ ForeignCreateRoleBinding
    \/ ForeignDeleteRole
    \/ ForeignDeleteRoleBinding

Spec == Init /\ [][Next]_vars

----------------------------------------------------------------------------
(* The controller as the only writer of Roles and RoleBindings: the        *)
(* Ingress changes, calls fail, Reconciles run.                            *)

InitChurn ==
    /\ config = [SecretNamespace |-> OpenShiftConfigNamespace]
    /\ ingress = {Ingress(<<ComponentRouteSpec("default", "foo", "www.testing.com", "foo")>>,
                          <<ComponentRouteStatus("default", "foo", <<"foo", "bar">>)>>)}
    /\ roles = {}
    /\ roleBindings = {}
    /\ last = NoRun
    /\ served = {}
    /\ budget = MaxChanges
    /\ joined = NotJoined
    /\ queued = TRUE
    /\ faults = 0
    /\ workers = NoWorkers

NextChurn ==
    \/ ReconcileRequest
    \/ UpdateIngressSpec
    \/ UpdateIngressStatus
    \/ DeleteIngress

SpecChurn == InitChurn /\ [][NextChurn]_vars

----------------------------------------------------------------------------
(* The controller as the only writer, over an Ingress that changes          *)
(* MaxLiveChanges times; the hostnames of its entries are varied where the  *)
(* runs of Reconcile are compared.                                          *)

InitHostnames ==
    /\ config = [SecretNamespace |-> OpenShiftConfigNamespace]
    /\ ingress = {Ingress(<<ComponentRouteSpec("default", "foo", "www.testing.com", "foo")>>,
                          <<ComponentRouteStatus("default", "foo", <<"foo", "bar">>)>>)}
    /\ roles = {}
    /\ roleBindings = {}
    /\ last = NoRun
    /\ served = {}
    /\ budget = MaxLiveChanges
    /\ joined = NotJoined
    /\ queued = TRUE
    /\ faults = 0
    /\ workers = NoWorkers

SpecHostnames == InitHostnames /\ [][NextChurn]_vars

----------------------------------------------------------------------------
(* The controller as the only writer, configured with openshift-config or  *)
(* with another namespace as Config.SecretNamespace.                        *)

SecretNamespaces == {OpenShiftConfigNamespace, "custom-config"}

InitNamespaces ==
    /\ config \in {[SecretNamespace |-> ns] : ns \in SecretNamespaces}
    /\ ingress = {Ingress(<<ComponentRouteSpec("default", "foo", "www.testing.com", "foo")>>,
                          <<ComponentRouteStatus("default", "foo", <<"foo", "bar">>)>>)}
    /\ roles = {}
    /\ roleBindings = {}
    /\ last = NoRun
    /\ served = {}
    /\ budget = MaxLiveChanges
    /\ joined = NotJoined
    /\ queued = TRUE
    /\ faults = 0
    /\ workers = NoWorkers

SpecNamespaces == InitNamespaces /\ [][NextChurn]_vars

----------------------------------------------------------------------------
(* The controller driven by its workqueue.  A request is queued by every   *)
(* change of the Ingress, by every Reconcile that returns an error or      *)
(* Requeue, and by every change of a labelled Role or RoleBinding (the     *)
(* watches of New); a queued request is reconciled in the end.  The        *)
(* Ingress changes MaxChanges times and MaxFaults Reconciles meet a        *)
(* failing call.                                                            *)

InitLive ==
    /\ config = [SecretNamespace |-> OpenShiftConfigNamespace]
    /\ ingress = {Ingress(<<ComponentRouteSpec("default", "foo", "www.testing.com", "foo")>>,
                          <<ComponentRouteStatus("default", "foo", <<"foo", "bar">>)>>)}
    /\ roles = {}
    /\ roleBindings = {}
    /\ last = NoRun
    /\ served = {}
    /\ budget = MaxLiveChanges
    /\ joined = NotJoined
    /\ workers = NoWorkers
    /\ queued = TRUE
    /\ faults = MaxFaults

\* a collaborator call of the run failed for a reason of the collaborator
Faulty(calls) == \E i \in DOMAIN calls : calls[i].res = "Error"

\* the controller takes the request from the workqueue
LiveReconcile ==
    /\ queued
    /\ \E out \in Reconcile(ingress, Start) :
          /\ Faulty(out.calls) => faults > 0
          /\ faults' = IF Faulty(out.calls) THEN faults - 1 ELSE faults
          /\ roles' = out.roles
          /\ roleBindings' = out.roleBindings
          /\ last' = [ran |-> TRUE, Requeue |-> out.Requeue, err |-> out.err,
                      wrap |-> out.wrap, did |-> Did(out.calls)]
          /\ served' = IF out.err = NoErr /\ ingress # {} THEN out.hashes ELSE served
          /\ queued' = (\/ out.Requeue
                        \/ out.err # NoErr
                        \/ out.roles # roles
                        \/ out.roleBindings # roleBindings)
    /\ UNCHANGED <<config, ingress, budget, joined, workers>>

NextLive ==
    \/ LiveReconcile
    \/ UpdateIngressSpec
    \/ UpdateIngressStatus
    \/ DeleteIngress

SpecLive == InitLive /\ [][NextLive]_vars /\ WF_vars(LiveReconcile)

----------------------------------------------------------------------------
(* The intersector on its own, over lists that also hold a route of another *)
(* namespace with the name of a route of default                             *)

WideSpecEntries ==
    SpecEntries \cup {ComponentRouteSpec("other", "foo", "www.testing.com", "ofoo")}

WideStatusEntries ==
    StatusEntries \cup {ComponentRouteStatus("other", "foo", <<"baz">>)}

InitIntersect ==
    /\ config = [SecretNamespace |-> OpenShiftConfigNamespace]
    /\ ingress \in {{Ingress(d, s)} : d \in ListsOver(WideSpecEntries),
                                      s \in ListsOver(WideStatusEntries)}
    /\ roles = {}
    /\ roleBindings = {}
    /\ last = NoRun
    /\ served = {}
    /\ budget = 0
    /\ joined = NotJoined
    /\ queued = TRUE
    /\ faults = 0
    /\ workers = NoWorkers

Intersect ==
    \E i \in ingress :
        /\ ~joined.done
        /\ joined' = [done |-> TRUE,
                      componentRoutes |->
                          intersectingComponentRoutes(i.Spec.ComponentRoutes,
                                                      i.Status.ComponentRoutes)]
        /\ UNCHANGED <<config, ingress, roles, roleBindings, last, served, budget,
                       workers, queued, faults>>

SpecIntersect == InitIntersect /\ [][Intersect]_vars

----------------------------------------------------------------------------
(* The key on its own: the intersector over routes of two namespaces, with *)
(* names that two namespaces share and a logical name that holds the        *)
(* separator.  Namespaces are names of real namespaces, as                  *)
(* ComponentRouteSpec.Namespace requires.                                   *)

KeyNamespaces == {"default", "other"}
KeyNames == {"foo", "bar", "foo/bar"}

KeySpecEntries ==
    {ComponentRouteSpec(ns, n, "www.testing.com", "foo") : ns \in KeyNamespaces, n \in KeyNames}

KeyStatusEntries ==
    {ComponentRouteStatus(ns, n, <<"foo">>) : ns \in KeyNamespaces, n \in KeyNames}

InitKey ==
    /\ config = [SecretNamespace |-> OpenShiftConfigNamespace]
    /\ ingress \in {{Ingress(d, s)} : d \in ListsOver(KeySpecEntries),
                                      s \in ListsOver(KeyStatusEntries)}
    /\ roles = {}
    /\ roleBindings = {}
    /\ last = NoRun
    /\ served = {}
    /\ budget = 0
    /\ joined = NotJoined
    /\ queued = TRUE
    /\ faults = 0
    /\ workers = NoWorkers

SpecKey == InitKey /\ [][Intersect]_vars

----------------------------------------------------------------------------
(* Reconcile called with requests for two Ingresses whose component routes *)
(* differ; the roles and role-bindings of both live in the one secret      *)
(* namespace.                                                               *)

ParentP ==
    Ingress(<<ComponentRouteSpec("default", "foo", "www.testing.com", "foo")>>,
            <<ComponentRouteStatus("default", "foo", <<"foo", "bar">>)>>)

ParentQ ==
    [Ingress(<<ComponentRouteSpec("default", "bar", "www.testing.com", "bar")>>,
             <<ComponentRouteStatus("default", "bar", <<"bar">>)>>)
     EXCEPT !.Name = "other"]

InitParents ==
    /\ config = [SecretNamespace |-> OpenShiftConfigNamespace]
    /\ ingress = {ParentP, ParentQ}
    /\ roles = {}
    /\ roleBindings = {}
    /\ last = NoRun
    /\ served = {}
    /\ budget = 0
    /\ joined = NotJoined
    /\ queued = TRUE
    /\ faults = 0
    /\ workers = NoWorkers

\* Reconcile of the request that names parent p
ReconcileParent ==
    \E p \in ingress :
        \E out \in Reconcile({p}, Start) :
            /\ roles' = out.roles
            /\ roleBindings' = out.roleBindings
            /\ last' = [ran |-> TRUE, Requeue |-> out.Requeue, err |-> out.err,
                        wrap |-> out.wrap, did |-> Did(out.calls)]
            /\ served' = IF out.err = NoErr THEN out.hashes ELSE served
            /\ UNCHANGED <<config, ingress, budget, joined, workers, queued, faults>>

SpecParents == InitParents /\ [][ReconcileParent]_vars

----------------------------------------------------------------------------
(* Two Reconciles of the same request at the same time.  Each one takes    *)
(* its collaborator calls in the order of the code; between a list and the *)
(* writes that follow it the other one may act.                            *)

\* the Ingress has default/foo as its one component route, or has lost it
\* from spec.componentRoutes
RaceIngresses ==
    {Ingress(<<ComponentRouteSpec("default", "foo", "www.testing.com", "foo")>>,
             <<ComponentRouteStatus("default", "foo", <<"foo", "bar">>)>>),
     Ingress(<<>>, <<ComponentRouteStatus("default", "foo", <<"foo", "bar">>)>>)}

\* the Role and the RoleBinding an earlier Reconcile made for default/foo
\* under the generated name
MadeRole(name) ==
    [Name |-> name, GenerateName |-> "foo-", Namespace |-> OpenShiftConfigNamespace,
     Labels |-> HashLabel(Hash(namespacedName("default", "foo"))),
     Rules |-> <<PolicyRule("foo")>>]

MadeRoleBinding(name) ==
    [Name |-> name, GenerateName |-> "", Namespace |-> OpenShiftConfigNamespace,
     Labels |-> HashLabel(Hash(namespacedName("default", "foo"))),
     Subjects |-> subjectsOf(<<"foo", "bar">>), RoleRef |-> RoleRef(name)]

\* nothing made yet, one Role and RoleBinding made, or two of each left by
\* an earlier race
InitRace ==
    /\ config = [SecretNamespace |-> OpenShiftConfigNamespace]
    /\ ingress \in {{i} : i \in RaceIngresses}
    /\ \E names \in {{}, {"foo-1"}, {"foo-1", "foo-2"}} :
          /\ roles = {MadeRole(n) : n \in names}
          /\ roleBindings = {MadeRoleBinding(n) : n \in names}
    /\ last = NoRun
    /\ served = {}
    /\ budget = 0
    /\ joined = NotJoined
    /\ queued = TRUE
    /\ faults = 0
    /\ workers = [w \in {1, 2} |->
                     LET componentRoutes ==
                             UNION {{intersectingComponentRoutes(i.Spec.ComponentRoutes,
                                                                 i.Status.ComponentRoutes)}
                                    : i \in ingress}
                         todo == CHOOSE c \in componentRoutes : TRUE
                     IN [Idle EXCEPT !.todo = todo,
                                     !.pc = IF todo = <<>> THEN "cleanupListRoles"
                                            ELSE "listRoles"]]

\* the run record of worker w before its next call
RunOf(w) ==
    [Start EXCEPT !.items = workers[w].items, !.name = workers[w].roleName]

\* the component routes of the Ingress the workers fetched
RaceHashes ==
    UNION {HashesOf(intersectingComponentRoutes(i.Spec.ComponentRoutes,
                                                i.Status.ComponentRoutes))
           : i \in ingress}

\* the calls worker w makes next, as the run records they can end in
StepOf(w) ==
    LET me == workers[w]
        pc == me.pc
    IN IF pc = "listRoles"
       THEN cacheList(RunOf(w), "Role", componentRouteResources(Head(me.todo)))
       ELSE IF pc = "upsertRole"
       THEN upsertRole(RunOf(w), Head(me.todo))
       ELSE IF pc = "listRoleBindings"
       THEN cacheList(RunOf(w), "RoleBinding", componentRouteResources(Head(me.todo)))
       ELSE IF pc = "upsertRoleBinding"
       THEN upsertRoleBinding(RunOf(w), Head(me.todo), me.roleName)
       ELSE IF pc = "cleanupListRoles"
       THEN cleanupList(RunOf(w), "Role")
       ELSE IF pc = "cleanupRoles"
       THEN cleanupItems(RunOf(w), "Role", me.items, RaceHashes)
       ELSE IF pc = "cleanupListRoleBindings"
       THEN cleanupList(RunOf(w), "RoleBinding")
       ELSE cleanupItems(RunOf(w), "RoleBinding", me.items, RaceHashes)

\* where worker w stands after the calls at pc returned no error
After(pc, todo) ==
    IF pc = "listRoles" THEN "upsertRole"
    ELSE IF pc = "upsertRole" THEN "listRoleBindings"
    ELSE IF pc = "listRoleBindings" THEN "upsertRoleBinding"
    ELSE IF pc = "upsertRoleBinding"
    THEN IF Len(todo) > 1 THEN "listRoles" ELSE "cleanupListRoles"
    ELSE IF pc = "cleanupListRoles" THEN "cleanupRoles"
    ELSE IF pc = "cleanupRoles" THEN "cleanupListRoleBindings"
    ELSE IF pc = "cleanupListRoleBindings" THEN "cleanupRoleBindings"
    ELSE "done"

LogOf(calls) == {<<calls[i].op, calls[i].kind, calls[i].res>> : i \in DOMAIN calls}

\* worker w makes its next calls
WorkerStep ==
    \E w \in {1, 2} :
        /\ workers[w].pc \notin {"idle", "done"}
        /\ \E out \in StepOf(w) :
              /\ roles' = out.roles
              /\ roleBindings' = out.roleBindings
              /\ workers' =
                    [workers EXCEPT ![w] =
                        [pc |-> IF out.err # NoErr THEN "done"
                                ELSE After(workers[w].pc, workers[w].todo),
                         todo |-> IF out.err = NoErr /\ workers[w].pc = "upsertRoleBinding"
                                  THEN Tail(workers[w].todo) ELSE workers[w].todo,
                         items |-> IF workers[w].pc \in {"listRoles", "listRoleBindings",
                                                           "cleanupListRoles",
                                                           "cleanupListRoleBindings"}
                                   THEN out.items ELSE workers[w].items,
                         roleName |-> IF workers[w].pc = "upsertRole"
                                      THEN out.name ELSE workers[w].roleName,
                         err |-> out.err,
                         calls |-> out.calls,
                         log |-> workers[w].log \cup LogOf(out.calls)]]
        /\ UNCHANGED <<config, ingress, last, served, budget, joined, queued, faults>>

BothDone == \A w \in {1, 2} : workers[w].pc = "done"

\* once both have finished, one more Reconcile runs alone
LoneReconcile ==
    /\ BothDone /\ ~last.ran
    /\ \E out \in Reconcile(ingress, Start) :
          /\ roles' = out.roles
          /\ roleBindings' = out.roleBindings
          /\ last' = [ran |-> TRUE, Requeue |-> out.Requeue, err |-> out.err,
                      wrap |-> out.wrap, did |-> Did(out.calls)]
          /\ served' = IF out.err = NoErr THEN out.hashes ELSE served
    /\ UNCHANGED <<config, ingress, budget, joined, workers, queued, faults>>

NextRace == WorkerStep \/ LoneReconcile

\* the list of the collector came back with an object that has no label
LabelFault ==
    \E w \in {1, 2} :
        /\ workers[w].pc \in {"cleanupRoles", "cleanupRoleBindings"}
        /\ \A n \in DOMAIN workers[w].items :
               componentRouteHashLabelKey \in DOMAIN workers[w].items[n].Labels
        /\ \E n \in DOMAIN workers[w].items :
               workers' = [workers EXCEPT ![w].items[n].Labels = NoLabels]
        /\ UNCHANGED <<config, ingress, roles, roleBindings, last, served, budget, joined,
                       queued, faults>>

NextFault == WorkerStep \/ LabelFault

SpecFault == InitRace /\ [][NextFault]_vars

SpecRace == InitRace /\ [][NextRace]_vars

----------------------------------------------------------------------------
(* What the claims speak of *)

\* spec.componentRoutes and status.componentRoutes of the stored Ingress
Desired == IF ingress = {} THEN <<>> ELSE (CHOOSE i \in ingress : TRUE).Spec.ComponentRoutes
Observed == IF ingress = {} THEN <<>> ELSE (CHOOSE i \in ingress : TRUE).Status.ComponentRoutes

KeyOf(entry) == <<entry.Namespace, entry.Name>>
KeyHash(key) == Hash(namespacedName(key[1], key[2]))

\* the active targets: the keys present in both lists
ActiveKeys ==
    {KeyOf(Desired[i]) : i \in DOMAIN Desired}
    \cap {KeyOf(Observed[i]) : i \in DOMAIN Observed}

Last(S) == CHOOSE i \in S : \A j \in S : j <= i

\* the last desired (observed) entry of a key
LastDesired(key) == Desired[Last({i \in DOMAIN Desired : KeyOf(Desired[i]) = key})]
LastObserved(key) == Observed[Last({i \in DOMAIN Observed : KeyOf(Observed[i]) = key})]

\* the objects of the managed namespace that carry the marker label with hash
Labelled(objs, hash) ==
    {o \in objs : /\ o.Namespace = OpenShiftConfigNamespace
                  /\ componentRouteHashLabelKey \in DOMAIN o.Labels
                  /\ o.Labels[componentRouteHashLabelKey] = hash}

\* the last Reconcile found the Ingress and returned no error, and nobody
\* wrote since
Succeeded == last.ran /\ last.err = NoErr /\ ingress # {}

\* the role grants get, list, watch on the one secret
GrantsSecret(role, secretName) ==
    /\ Len(role.Rules) = 1
    /\ role.Rules[1].Verbs = <<"get", "list", "watch">>
    /\ role.Rules[1].Resources = <<"secrets">>
    /\ role.Rules[1].ResourceNames = <<secretName>>

\* the subjects are one ServiceAccount per user, in order
BindsUsers(roleBinding, users) ==
    /\ Len(roleBinding.Subjects) = Len(users)
    /\ \A n \in DOMAIN users :
          /\ roleBinding.Subjects[n].Kind = "ServiceAccount"
          /\ roleBinding.Subjects[n].Name = users[n]

----------------------------------------------------------------------------
(* C1 *)

----------------------------------------------------------------------------
(* C2 *)

\* the component routes of the stored Ingress, in the order Reconcile ensures them
ComponentRoutes == intersectingComponentRoutes(Desired, Observed)

\* C2: in every Reconcile that returns no error, every active target ends with
\* exactly one labelled role-binding, whose subjects are the service accounts
\* of the target's consumingUsers and whose roleRef names the role that
\* ensureServiceCertKeyPairSecretRole returned for the target in this
\* reconciliation; that role exists and carries the target's hash.
C2_OneRoleBindingPerTarget ==
    \A out \in Reconcile(ingress, Start) :
        (ingress # {} /\ out.err = NoErr) =>
            /\ Len(out.roleNames) = Len(ComponentRoutes)
            /\ \A key \in ActiveKeys :
                  \E b \in out.roleBindings :
                      /\ Labelled(out.roleBindings, KeyHash(key)) = {b}
                      /\ BindsUsers(b, LastObserved(key).ConsumingUsers)
            /\ \A j \in DOMAIN ComponentRoutes :
                  \E b \in Labelled(out.roleBindings, ComponentRoutes[j].Hash) :
                      /\ b.RoleRef.Name = out.roleNames[j]
                      /\ \E r \in Labelled(out.roles, ComponentRoutes[j].Hash) :
                             r.Name = out.roleNames[j]

\* a Reconcile succeeded and left a role-binding of two subjects for an
\* active target, bound to a stored role
C2_Witness ==
    /\ Succeeded
    /\ \E key \in ActiveKeys :
          \E b \in Labelled(roleBindings, KeyHash(key)) :
              /\ Len(b.Subjects) = 2
              /\ \E r \in roles : r.Name = b.RoleRef.Name

----------------------------------------------------------------------------
(* C3 *)

\* the keys that were active targets of the last Reconcile that returned no
\* error and have since been removed from one of the two lists only
RemovedKeys ==
    {key \in ({KeyOf(Desired[i]) : i \in DOMAIN Desired}
              \cup {KeyOf(Observed[i]) : i \in DOMAIN Observed}) :
        KeyHash(key) \in served /\ key \notin ActiveKeys}

\* C3 as stated: a Reconcile that returns no error leaves no role and no
\* role-binding labelled with the hash of a removed key, and the one role
\* and the one role-binding labelled with the hash of a key that is still
\* active are still there.
C3_AsStated ==
    [][(last'.ran /\ last'.err = NoErr /\ ingress # {} /\ RemovedKeys # {}) =>
          /\ \A key \in RemovedKeys :
                /\ Labelled(roles', KeyHash(key)) = {}
                /\ Labelled(roleBindings', KeyHash(key)) = {}
          /\ \A key \in ActiveKeys :
                /\ Cardinality(Labelled(roles, KeyHash(key))) = 1 =>
                      \A o \in Labelled(roles, KeyHash(key)) :
                          \E n \in roles' : SameObject(o, n)
                /\ Cardinality(Labelled(roleBindings, KeyHash(key))) = 1 =>
                      \A o \in Labelled(roleBindings, KeyHash(key)) :
                          \E n \in roleBindings' : SameObject(o, n)
      ]_vars

----------------------------------------------------------------------------
(* C4 *)

\* the desired entries whose key some observed entry has
Matched == {i \in DOMAIN Desired : KeyOf(Desired[i]) \in ActiveKeys}

\* C4: the targets intersectingComponentRoutes returns are those of the keys
\* present in both lists, wherever the entries stand: every target carries
\* the name and secret of a desired entry and the consumingUsers of an
\* observed entry of the same key, every desired entry with an observed
\* entry of its key has its target, and no other entry has one.
C4_Intersection ==
    joined.done =>
        LET T == joined.componentRoutes
        IN /\ {T[j].Hash : j \in DOMAIN T} = {KeyHash(key) : key \in ActiveKeys}
           /\ Len(T) = Cardinality(Matched)
           /\ \A j \in DOMAIN T :
                 \E i \in DOMAIN Desired, n \in DOMAIN Observed :
                     /\ KeyOf(Desired[i]) = KeyOf(Observed[n])
                     /\ T[j].Name = Desired[i].Name
                     /\ T[j].Hash = KeyHash(KeyOf(Desired[i]))
                     /\ T[j].ServingCertificateName = Desired[i].ServingCertKeyPairSecret.Name
                     /\ T[j].ConsumingUsers = Observed[n].ConsumingUsers
           /\ \A i \in Matched :
                 \E j \in DOMAIN T :
                     /\ T[j].Hash = KeyHash(KeyOf(Desired[i]))
                     /\ T[j].ServingCertificateName = Desired[i].ServingCertKeyPairSecret.Name

\* the intersector returned a target for a key that stands at different
\* places of the two lists, next to a desired-only and an observed-only entry
C4_Witness ==
    /\ joined.done
    /\ Len(joined.componentRoutes) = 1
    /\ Len(Desired) = 2 /\ Len(Observed) = 2
    /\ KeyOf(Desired[1]) = KeyOf(Observed[2])
    /\ KeyOf(Desired[2]) \notin {KeyOf(Observed[1]), KeyOf(Observed[2])}
    /\ KeyOf(Observed[1]) \notin {KeyOf(Desired[1]), KeyOf(Desired[2])}

----------------------------------------------------------------------------
(* C5 *)

\* the active targets that have their one role and their one role-binding,
\* the role-binding bound to the role
Settled ==
    {key \in ActiveKeys :
        \E r \in roles, b \in roleBindings :
            /\ Labelled(roles, KeyHash(key)) = {r}
            /\ Labelled(roleBindings, KeyHash(key)) = {b}
            /\ b.RoleRef = [Kind |-> "Role", Name |-> r.Name,
                            APIGroup |-> "rbac.authorization.k8s.io"]}

\* the calls of a run that create or delete an object labelled hash
CreatesOrDeletes(calls, hash) ==
    {i \in DOMAIN calls : calls[i].op \in {"create", "delete"} /\ calls[i].hash = hash}

\* C5: when an active target has its role and its role-binding, a Reconcile
\* issues no create and no delete for the target's hash, whatever the
\* target's consumingUsers have become; when it returns no error, the same
\* role-binding object remains, its name and roleRef unchanged, its subjects
\* exactly the target's consumingUsers.
C5_UpdateInPlace ==
    \A out \in Reconcile(ingress, Start) :
        \A key \in Settled :
            /\ CreatesOrDeletes(out.calls, KeyHash(key)) = {}
            /\ out.err = NoErr =>
                  \A b \in Labelled(roleBindings, KeyHash(key)) :
                      \E n \in out.roleBindings :
                          /\ Labelled(out.roleBindings, KeyHash(key)) = {n}
                          /\ n.Name = b.Name
                          /\ n.RoleRef = b.RoleRef
                          /\ BindsUsers(n, LastObserved(key).ConsumingUsers)

\* a target's role-binding still binds the two users of an earlier Reconcile,
\* the target's consumingUsers are now one user, and a Reconcile that returns
\* no error leaves the role-binding with that one subject
C5_Witness ==
    \E key \in Settled :
        /\ LastObserved(key).ConsumingUsers = <<"foo">>
        /\ \E b \in Labelled(roleBindings, KeyHash(key)) :
              /\ BindsUsers(b, <<"foo", "bar">>)
              /\ \E out \in Reconcile(ingress, Start) :
                    /\ out.err = NoErr
                    /\ \E n \in out.roleBindings :
                          n.Name = b.Name /\ BindsUsers(n, <<"foo">>)

----------------------------------------------------------------------------
(* C6 *)

\* the roles (role-bindings) a run leaves
Left(out, kind) == IF kind = "Role" THEN out.roles ELSE out.roleBindings

\* C6: when, in a Reconcile that returns no error, the list for a target's
\* hash returns two or more roles (role-bindings), the run deletes every
\* listed object but the first, does not delete the first and updates it, and
\* ends with the first listed object as the only role (role-binding) of that
\* hash, holding the target's content.
C6_DuplicatesHealed ==
    \A out \in Reconcile(ingress, Start) :
        out.err = NoErr =>
            \A i \in DOMAIN out.calls :
                LET c == out.calls[i]
                    later == {j \in DOMAIN out.calls : j > i /\ out.calls[j].kind = c.kind}
                IN (c.op = "list" /\ c.res = "ok" /\ c.hash # "*" /\ Len(c.items) >= 2) =>
                      /\ \A n \in 2..Len(c.items) :
                            \E j \in later : /\ out.calls[j].op = "delete"
                                             /\ out.calls[j].name = c.items[n]
                                             /\ out.calls[j].res = "ok"
                      /\ \A j \in later : out.calls[j].op = "delete" =>
                                              out.calls[j].name # c.items[1]
                      /\ \E j \in later : /\ out.calls[j].op = "update"
                                          /\ out.calls[j].name = c.items[1]
                                          /\ out.calls[j].res = "ok"
                      /\ \E o \in Left(out, c.kind) :
                            /\ Labelled(Left(out, c.kind), c.hash) = {o}
                            /\ o.Name = c.items[1]
                            /\ \A key \in ActiveKeys :
                                  KeyHash(key) = c.hash =>
                                      IF c.kind = "Role"
                                      THEN GrantsSecret(o,
                                               LastDesired(key).ServingCertKeyPairSecret.Name)
                                      ELSE BindsUsers(o, LastObserved(key).ConsumingUsers)

\* a Reconcile that returned no error has deleted a role of an active
\* target, and one role of that target is left
C6_Witness ==
    /\ Succeeded
    /\ \E key \in ActiveKeys :
          /\ <<"delete", "Role", KeyHash(key)>> \in last.did
          /\ <<"update", "Role", KeyHash(key)>> \in last.did
          /\ Cardinality(Labelled(roles, KeyHash(key))) = 1

----------------------------------------------------------------------------
(* C7 *)

\* C7 as stated: right after a Reconcile that returned no error, with the
\* Ingress unchanged and no other writer in between, a second Reconcile
\* issues no create call and no update call.
C7_AsStated ==
    Succeeded =>
        \A out \in Reconcile(ingress, Start) :
            \A i \in DOMAIN out.calls : out.calls[i].op \notin {"create", "update"}

----------------------------------------------------------------------------
(* C8 *)

HasMarker(o) ==
    o.Namespace = OpenShiftConfigNamespace /\ componentRouteHashLabelKey \in DOMAIN o.Labels

\* the update and delete calls of a run name an object that a list of the
\* same kind returned earlier in the run
WritesListed(calls) ==
    \A j \in DOMAIN calls :
        calls[j].op \in {"update", "delete"} =>
            \E i \in 1..(j - 1) :
                /\ calls[i].op = "list" /\ calls[i].kind = calls[j].kind
                /\ calls[i].res = "ok"
                /\ \E n \in DOMAIN calls[i].items : calls[i].items[n] = calls[j].name

\* C8: whatever a Reconcile does and wherever it stops, every role and
\* role-binding without the marker label is left as it was, no update and
\* no delete call names such an object, and every update and delete call
\* names an object that a label-filtered list returned earlier in the run.
C8_Ownership ==
    \A out \in Reconcile(ingress, Start) :
        /\ \A o \in roles : ~HasMarker(o) => o \in out.roles
        /\ \A o \in roleBindings : ~HasMarker(o) => o \in out.roleBindings
        /\ \A j \in DOMAIN out.calls :
              out.calls[j].op \in {"update", "delete"} =>
                  \A o \in (IF out.calls[j].kind = "Role" THEN roles ELSE roleBindings) :
                      ~HasMarker(o) => o.Name # out.calls[j].name
        /\ WritesListed(out.calls)

\* a Reconcile that stopped with an error after it had updated or deleted an
\* object ran next to a role without the marker label, which is still there
C8_Witness ==
    /\ last.ran /\ last.err # NoErr
    /\ \E d \in last.did : d[1] \in {"update", "delete"}
    /\ \E o \in roles : ~HasMarker(o)

----------------------------------------------------------------------------
(* C9 *)

\* C9: a Reconcile whose fetch of the Ingress returns NotFound returns no
\* error and requeue=false, issues no call but the fetch, and leaves the
\* roles and the role-bindings as they were.
C9_ParentNotFound ==
    \A out \in Reconcile(ingress, Start) :
        (\E i \in DOMAIN out.calls : out.calls[i].op = "get" /\ out.calls[i].res = "NotFound") =>
            /\ out.err = NoErr
            /\ ~out.Requeue
            /\ Len(out.calls) = 1
            /\ out.roles = roles
            /\ out.roleBindings = roleBindings

\* a Reconcile found no Ingress and returned no error, with a role and a
\* role-binding of an earlier Reconcile stored
C9_Witness ==
    /\ last.ran /\ ingress = {}
    /\ last.err = NoErr /\ ~last.Requeue /\ last.did = {}
    /\ \E o \in roles : HasMarker(o)
    /\ \E o \in roleBindings : HasMarker(o)

----------------------------------------------------------------------------
(* C10 *)

\* C10 as stated: a Reconcile in which a collaborator call fails with an
\* error that is neither NotFound nor AlreadyExists stops at that call and
\* returns requeue=true together with an error.
C10_AsStated ==
    \A out \in Reconcile(ingress, Start) :
        \A i \in DOMAIN out.calls :
            out.calls[i].res = "Error" =>
                /\ i = Len(out.calls)
                /\ out.err # NoErr
                /\ out.Requeue

----------------------------------------------------------------------------
(* C11 *)

\* the call failed, and not in one of the three ways that may be ignored
HardFailure(call) ==
    /\ call.res # "ok"
    /\ ~(call.op = "get" /\ call.res = "NotFound")
    /\ ~(call.op = "delete" /\ call.res = "NotFound")
    /\ ~(call.op = "create" /\ call.res = "AlreadyExists")

\* C11 as stated: a Reconcile in which a collaborator call fails, other than
\* with NotFound on the fetch of the Ingress, NotFound on a delete or
\* AlreadyExists on a create, returns an error.
C11_AsStated ==
    \A out \in Reconcile(ingress, Start) :
        (\E i \in DOMAIN out.calls : HardFailure(out.calls[i])) => out.err # NoErr

----------------------------------------------------------------------------
(* C12 *)

\* C12 as stated: when a create of a role or of a role-binding returns
\* AlreadyExists, the Reconcile does not stop there with that error.
C12_AsStated ==
    \A w \in {1, 2} :
        \A i \in DOMAIN workers[w].calls :
            (workers[w].calls[i].op = "create"
             /\ workers[w].calls[i].res = "AlreadyExists") =>
                ~(i = Len(workers[w].calls) /\ workers[w].err # NoErr)

----------------------------------------------------------------------------
(* C13 *)

\* the calls, among those worker w made last, that deleted the object name
\* or found it gone
Deleted(w, name) ==
    {i \in DOMAIN workers[w].calls :
        /\ workers[w].calls[i].op = "delete"
        /\ workers[w].calls[i].name = name
        /\ workers[w].calls[i].res \in {"ok", "NotFound"}}

\* C13: a delete that returns NotFound, because the other Reconcile deleted
\* the listed object first, does not end the run with an error; the loop
\* goes on: when the de-duplication returned no error every listed object
\* but the first was deleted or found gone and the first was updated, and
\* when a pass of the collector returned no error every listed object of a
\* hash that is not active was deleted or found gone.
C13_NotFoundOnDelete ==
    \A w \in {1, 2} :
        LET me == workers[w]
        IN /\ \A i \in DOMAIN me.calls :
                 (me.calls[i].op = "delete" /\ me.calls[i].res = "NotFound") =>
                     ~(i = Len(me.calls) /\ me.err # NoErr)
           /\ (me.err = NoErr /\ me.pc \in {"listRoleBindings", "cleanupListRoles"}
               /\ Len(me.items) >= 2) =>
                 /\ \A n \in 2..Len(me.items) : Deleted(w, me.items[n].Name) # {}
                 /\ \E i \in DOMAIN me.calls : /\ me.calls[i].op = "update"
                                               /\ me.calls[i].name = me.items[1].Name
                                               /\ me.calls[i].res = "ok"
           /\ (me.err = NoErr /\ me.pc \in {"cleanupListRoleBindings", "done"}) =>
                 \A n \in DOMAIN me.items :
                     (componentRouteHashLabelKey \in DOMAIN me.items[n].Labels
                      /\ me.items[n].Labels[componentRouteHashLabelKey] \notin RaceHashes) =>
                         Deleted(w, me.items[n].Name) # {}

\* a Reconcile whose delete of a duplicate role returned NotFound went on
\* to update the first role and has returned without error
C13_Witness ==
    \E w \in {1, 2} :
        /\ workers[w].pc = "done" /\ workers[w].err = NoErr
        /\ <<"delete", "Role", "NotFound">> \in workers[w].log
        /\ <<"update", "Role", "ok">> \in workers[w].log

----------------------------------------------------------------------------
(* C14 *)

LabelError == "Unable to find expected componentRoute hash label"

\* the places of the objects without the label in what worker w listed
Unlabelled(w) ==
    {n \in DOMAIN workers[w].items :
        componentRouteHashLabelKey \notin DOMAIN workers[w].items[n].Labels}

\* C14: a pass of the collector over a list that holds an object without
\* the label ends the Reconcile with an error: the label error, unless a
\* delete of an object listed before it failed first; no call is made for
\* the object without the label or for any object listed after it.
C14_LabelFault ==
    \A w \in {1, 2} :
        (workers[w].pc = "done" /\ Unlabelled(w) # {}) =>
            LET me == workers[w]
                first == CHOOSE n \in Unlabelled(w) : \A k \in Unlabelled(w) : n <= k
            IN /\ me.err # NoErr
               /\ me.err # LabelError =>
                     /\ me.calls # <<>>
                     /\ me.calls[Len(me.calls)].op = "delete"
                     /\ me.calls[Len(me.calls)].res = me.err
                     /\ \E n \in 1..(first - 1) :
                           me.calls[Len(me.calls)].name = me.items[n].Name
               /\ \A i \in DOMAIN me.calls :
                     \A n \in first..Len(me.items) : me.calls[i].name # me.items[n].Name

\* a pass of the collector over two stale objects, the first without the
\* label, ended the Reconcile with the label error and deleted neither
C14_Witness ==
    \E w \in {1, 2} :
        /\ workers[w].pc = "done" /\ workers[w].err = LabelError
        /\ Len(workers[w].items) = 2 /\ Unlabelled(w) = {1}
        /\ RaceHashes = {}
        /\ \A n \in {1, 2} : \E o \in roles \cup roleBindings :
                                 o.Name = workers[w].items[n].Name

----------------------------------------------------------------------------
(* C15 *)

\* C15 as stated: after a Reconcile that returned no error, every
\* role-binding of an active target refers to a Role of the API group
\* rbac.authorization.k8s.io whose name is the role-binding's own name.
C15_AsStated ==
    Succeeded =>
        \A key \in ActiveKeys :
            \A b \in Labelled(roleBindings, KeyHash(key)) :
                /\ b.RoleRef.Kind = "Role"
                /\ b.RoleRef.APIGroup = "rbac.authorization.k8s.io"
                /\ b.RoleRef.Name = b.Name

----------------------------------------------------------------------------
(* C16 *)

\* every active target has exactly one role and one role-binding with the
\* target's content, and no labelled role or role-binding has another hash
Converged ==
    /\ \A key \in ActiveKeys :
          /\ \E r \in roles :
                /\ Labelled(roles, KeyHash(key)) = {r}
                /\ GrantsSecret(r, LastDesired(key).ServingCertKeyPairSecret.Name)
          /\ \E b \in roleBindings :
                /\ Labelled(roleBindings, KeyHash(key)) = {b}
                /\ BindsUsers(b, LastObserved(key).ConsumingUsers)
    /\ \A o \in roles \cup roleBindings :
          HasMarker(o) =>
              \E key \in ActiveKeys : o.Labels[componentRouteHashLabelKey] = KeyHash(key)

\* C16 as stated: once the Ingress has stopped changing and calls have
\* stopped failing, with every queued request reconciled in the end, the
\* roles and role-bindings of an Ingress that is still there reach the
\* converged state and stay in it.
C16_AsStated == <>[](ingress # {} => Converged)

----------------------------------------------------------------------------
(* C18 *)

\* C18 as stated: after the Ingress for which a role and a role-binding
\* were generated is deleted, that role and that role-binding are deleted
\* from the secret namespace in the end.
C18_AsStated == (ingress = {}) ~> (roles = {} /\ roleBindings = {})

----------------------------------------------------------------------------
(* C17 *)

\* the entries of both lists of the Ingress
Entries ==
    {Desired[i] : i \in DOMAIN Desired} \cup {Observed[i] : i \in DOMAIN Observed}

\* the key as the intersector computes it for an entry of either list
keyOfEntry(entry) == Hash(namespacedName(entry.Namespace, entry.Name))

----------------------------------------------------------------------------
(* C19 *)

\* the targets of the Ingress, in the order Reconcile goes through them
Targets == intersectingComponentRoutes(Desired, Observed)

\* where the collector starts in a call log: its list of all labelled roles
CollectorStart(calls) ==
    LET S == {i \in DOMAIN calls : calls[i].op = "list" /\ calls[i].hash = "*"}
    IN IF S = {} THEN Len(calls) + 1 ELSE CHOOSE i \in S : \A j \in S : i <= j

\* the target a call before the collector belongs to: the number of lists
\* of roles up to it
TargetAt(calls, i) ==
    Cardinality({j \in 1..i : calls[j].op = "list" /\ calls[j].kind = "Role"})

IsWrite(call) == call.op \in {"create", "update", "delete"}

\* C19 as stated: in every Reconcile the calls before the collector go
\* through the targets in list order, for each target those on roles before
\* those on role-bindings; the collector starts only when every target was
\* gone through and no call failed; after the first failed call (other than
\* a tolerated NotFound or AlreadyExists) no create, update or delete is
\* issued; and what an earlier call wrote and no later call deleted is in
\* the store the run leaves.
C19_AsStated ==
    \A out \in Reconcile(ingress, Start) :
        LET calls == out.calls
            gc == CollectorStart(calls)
        IN /\ \A i \in DOMAIN calls :
                 (i < gc /\ calls[i].op # "get") =>
                     /\ TargetAt(calls, i) \in DOMAIN Targets
                     /\ calls[i].hash = Targets[TargetAt(calls, i)].Hash
                     /\ \A j \in 1..i :
                           (TargetAt(calls, j) = TargetAt(calls, i)
                            /\ calls[j].kind = "RoleBinding") =>
                               calls[i].kind = "RoleBinding"
           /\ gc \in DOMAIN calls =>
                 /\ TargetAt(calls, gc) = Len(Targets) + 1
                 /\ \A i \in 1..(gc - 1) : calls[i].res = "ok"
                 /\ \A k \in DOMAIN Targets :
                       \E i \in 1..(gc - 1) :
                           /\ TargetAt(calls, i) = k
                           /\ calls[i].kind = "RoleBinding"
                           /\ calls[i].op \in {"create", "update"}
           /\ \A i \in DOMAIN calls :
                 HardFailure(calls[i]) =>
                     \A j \in DOMAIN calls : j > i => ~IsWrite(calls[j])
           /\ \A i \in DOMAIN calls :
                 (calls[i].op \in {"create", "update"} /\ calls[i].res = "ok"
                  /\ ~\E j \in DOMAIN calls :
                         /\ j > i /\ calls[j].op = "delete" /\ calls[j].res = "ok"
                         /\ calls[j].kind = calls[i].kind /\ calls[j].name = calls[i].name) =>
                     \E o \in Store(out, calls[i].kind) : o.Name = calls[i].name

----------------------------------------------------------------------------
(* C20 *)

\* C20: after two Reconciles of the same request have run at the same
\* time, in any interleaving of their calls, and both have finished, one
\* more Reconcile that runs alone and returns no error leaves, for every
\* active target, exactly one role and exactly one role-binding of its hash,
\* the role-binding's roleRef naming that role.
C20_RaceHealed ==
    (BothDone /\ Succeeded) =>
        \A key \in ActiveKeys :
            \E r \in roles, b \in roleBindings :
                /\ Labelled(roles, KeyHash(key)) = {r}
                /\ Labelled(roleBindings, KeyHash(key)) = {b}
                /\ b.RoleRef.Name = r.Name

\* both Reconciles listed nothing and each created a role and a
\* role-binding; the Reconcile that ran alone afterwards deleted a role and
\* a role-binding of that hash and returned no error
C20_Witness ==
    /\ BothDone /\ Succeeded
    /\ \A w \in {1, 2} : /\ <<"create", "Role", "ok">> \in workers[w].log
                         /\ <<"create", "RoleBinding", "ok">> \in workers[w].log
    /\ \E key \in ActiveKeys :
          /\ <<"delete", "Role", KeyHash(key)>> \in last.did
          /\ <<"delete", "RoleBinding", KeyHash(key)>> \in last.did
          /\ Cardinality(Labelled(roles, KeyHash(key))) = 1

----------------------------------------------------------------------------
(* C21 *)

\* the hashes of the active targets of parent p
ActiveHashes(p) ==
    HashesOf(intersectingComponentRoutes(p.Spec.ComponentRoutes, p.Status.ComponentRoutes))

----------------------------------------------------------------------------
(* C22 *)

(* The watches of New on Roles and RoleBindings.  An event passes          *)
(* defaultPredicate when the object it carries has the marker label; for   *)
(* an update event predicate.NewPredicateFuncs hands the object as         *)
(* updated to the filter.  resourceToClusterIngressConfig maps every event *)
(* that passes to the one request for the cluster Ingress.                 *)

defaultPredicate(object) == componentRouteHashLabelKey \in DOMAIN object.Labels

\* the workqueue after the event that carries object
resourceToClusterIngressConfig(object) ==
    queued' = (queued \/ defaultPredicate(object))

Interference ==
    /\ budget > 0 /\ budget' = budget - 1
    /\ last' = NoRun
    /\ UNCHANGED <<config, ingress, served, joined, workers, faults>>

\* another actor creates a Role of its own, with or without the label
InterfereCreateRole ==
    \E r \in ForeignRoles :
        /\ \A o \in roles : ~SameObject(o, r)
        /\ roles' = roles \cup {r}
        /\ resourceToClusterIngressConfig(r)
        /\ Interference /\ UNCHANGED roleBindings

\* another actor deletes a Role or a RoleBinding
InterfereDelete ==
    \/ \E r \in roles :
          /\ roles' = roles \ {r}
          /\ resourceToClusterIngressConfig(r)
          /\ Interference /\ UNCHANGED roleBindings
    \/ \E b \in roleBindings :
          /\ roleBindings' = roleBindings \ {b}
          /\ resourceToClusterIngressConfig(b)
          /\ Interference /\ UNCHANGED roles

\* another actor rewrites the rules of a Role or the subjects of a
\* RoleBinding
InterfereAlter ==
    \/ \E r \in roles :
          LET new == [r EXCEPT !.Rules = <<PolicyRule("stale")>>]
          IN /\ new # r
             /\ roles' = (roles \ {r}) \cup {new}
             /\ resourceToClusterIngressConfig(new)
             /\ Interference /\ UNCHANGED roleBindings
    \/ \E b \in roleBindings :
          LET new == [b EXCEPT !.Subjects = subjectsOf(<<"stale">>)]
          IN /\ new # b
             /\ roleBindings' = (roleBindings \ {b}) \cup {new}
             /\ resourceToClusterIngressConfig(new)
             /\ Interference /\ UNCHANGED roles

\* another actor takes the labels off a Role or a RoleBinding
InterfereUnlabel ==
    \/ \E r \in roles :
          LET new == [r EXCEPT !.Labels = NoLabels]
          IN /\ new # r
             /\ roles' = (roles \ {r}) \cup {new}
             /\ resourceToClusterIngressConfig(new)
             /\ Interference /\ UNCHANGED roleBindings
    \/ \E b \in roleBindings :
          LET new == [b EXCEPT !.Labels = NoLabels]
          IN /\ new # b
             /\ roleBindings' = (roleBindings \ {b}) \cup {new}
             /\ resourceToClusterIngressConfig(new)
             /\ Interference /\ UNCHANGED roles

InitRepair ==
    /\ config = [SecretNamespace |-> OpenShiftConfigNamespace]
    /\ ingress = {Ingress(<<ComponentRouteSpec("default", "foo", "www.testing.com", "foo")>>,
                          <<ComponentRouteStatus("default", "foo", <<"foo", "bar">>)>>)}
    /\ roles = {}
    /\ roleBindings = {}
    /\ last = NoRun
    /\ served = {}
    /\ budget = MaxInterference
    /\ joined = NotJoined
    /\ workers = NoWorkers
    /\ queued = TRUE
    /\ faults = MaxFaults

NextRepair ==
    \/ LiveReconcile
    \/ InterfereCreateRole
    \/ InterfereDelete
    \/ InterfereAlter
    \/ InterfereUnlabel

SpecRepair == InitRepair /\ [][NextRepair]_vars /\ WF_vars(LiveReconcile)

\* every active target has a labelled role with its secret and a labelled
\* role-binding with its users
Repaired ==
    \A key \in ActiveKeys :
        /\ \E r \in Labelled(roles, KeyHash(key)) :
              GrantsSecret(r, LastDesired(key).ServingCertKeyPairSecret.Name)
        /\ \E b \in Labelled(roleBindings, KeyHash(key)) :
              BindsUsers(b, LastObserved(key).ConsumingUsers)

\* C22 as stated: whatever another actor does to the role or role-binding
\* of an active target, a request for the cluster Ingress is queued until a
\* Reconcile has returned without error with a role and a role-binding of
\* the target's content in place: when no request is queued, they are there.
C22_AsStated == ~queued => Repaired

----------------------------------------------------------------------------
(* C23 *)

\* C23 as stated: right after a Reconcile that returned no error, with the
\* Ingress unchanged and no other writer in between, a further Reconcile
\* that returns no error leaves the roles and the role-bindings as they
\* are: the same names, labels, rules, subjects and roleRefs, nothing
\* created, nothing deleted.
C23_AsStated ==
    Succeeded =>
        \A out \in Reconcile(ingress, Start) : out.err = NoErr =>
            /\ out.roles = roles
            /\ out.roleBindings = roleBindings
            /\ \A i \in DOMAIN out.calls :
                  out.calls[i].res = "ok" => out.calls[i].op \notin {"create", "delete"}

----------------------------------------------------------------------------
(* C24 *)

\* every collaborator call of the run succeeded
AllSucceeded(calls) == \A i \in DOMAIN calls : calls[i].res = "ok"

\* C24: a Reconcile all of whose calls succeed (the get of the Ingress,
\* every list, create, update and delete of the convergence and of the
\* collector) returns Requeue false and no error; and whatever happens,
\* Requeue true is returned only together with an error.
C24_SuccessResult ==
    \A out \in Reconcile(ingress, Start) :
        /\ AllSucceeded(out.calls) => (out.err = NoErr /\ ~out.Requeue)
        /\ out.Requeue => out.err # NoErr

\* a Reconcile has created a role and a role-binding, deleted a labelled
\* object of no active target, and returned no error and Requeue false
C24_Witness ==
    /\ Succeeded /\ ~last.Requeue
    /\ \E key \in ActiveKeys :
          /\ <<"create", "Role", KeyHash(key)>> \in last.did
          /\ <<"create", "RoleBinding", KeyHash(key)>> \in last.did
    /\ \E d \in last.did : d[1] = "delete" /\ d[3] \notin {KeyHash(key) : key \in ActiveKeys}

----------------------------------------------------------------------------
(* C25 *)

\* the keys that several observed entries have
RepeatedObserved ==
    {KeyOf(Observed[i]) : i \in {n \in DOMAIN Observed :
                                    \E k \in DOMAIN Observed :
                                        k # n /\ KeyOf(Observed[k]) = KeyOf(Observed[n])}}

\* C25: every target intersectingComponentRoutes returns has the
\* consumingUsers of the last observed entry of its key, and after a
\* Reconcile that returned no error every role-binding of an active target
\* has the subjects of the last observed entry of the target's key.
C25_LastObservedWins ==
    /\ \A j \in DOMAIN Targets :
          \A key \in ActiveKeys :
              KeyHash(key) = Targets[j].Hash =>
                  Targets[j].ConsumingUsers = LastObserved(key).ConsumingUsers
    /\ Succeeded =>
          \A key \in ActiveKeys :
              /\ Labelled(roleBindings, KeyHash(key)) # {}
              /\ \A b \in Labelled(roleBindings, KeyHash(key)) :
                    BindsUsers(b, LastObserved(key).ConsumingUsers)

\* a Reconcile returned no error for an Ingress whose status holds the key
\* of an active target twice, with different users; it wrote the role-binding
C25_Witness ==
    /\ Succeeded
    /\ \E key \in ActiveKeys \cap RepeatedObserved :
          /\ \E i \in DOMAIN Observed :
                /\ KeyOf(Observed[i]) = key
                /\ Observed[i].ConsumingUsers # LastObserved(key).ConsumingUsers
          /\ \E op \in {"create", "update"} : <<op, "RoleBinding", KeyHash(key)>> \in last.did

----------------------------------------------------------------------------
(* C26 *)

\* the i-th smallest element of a set of numbers
RECURSIVE Nth(_, _)
Nth(S, i) ==
    LET least == CHOOSE x \in S : \A y \in S : x <= y
    IN IF i = 1 THEN least ELSE Nth(S \ {least}, i - 1)

\* the lists that hold the entries of list s in another order
Reordered(s) ==
    IF s = <<>> THEN {<<>>}
    ELSE {[i \in DOMAIN s |-> s[p[i]]] : p \in Permutations(DOMAIN s)}

\* the targets follow the desired list: the j-th target is made of the j-th
\* desired entry that has an observed entry of its key
FollowsDesired(T) ==
    /\ Len(T) = Cardinality(Matched)
    /\ \A j \in DOMAIN T :
          LET d == Desired[Nth(Matched, j)]
          IN /\ T[j].Name = d.Name
             /\ T[j].Hash = KeyHash(KeyOf(d))
             /\ T[j].ServingCertificateName = d.ServingCertKeyPairSecret.Name

\* an entry that only one list has does not make Reconcile fail: a run all
\* of whose calls succeed returns no error, and its calls are about the
\* targets only
ExcludedSilently ==
    \A out \in Reconcile(ingress, Start) :
        /\ AllSucceeded(out.calls) => out.err = NoErr
        /\ \A i \in DOMAIN out.calls :
              out.calls[i].op \in {"list", "create", "update"} =>
                  out.calls[i].hash \in {"*"} \cup {KeyHash(key) : key \in ActiveKeys}

\* C26 as stated: the targets come in the order of the desired list, one
\* per matching desired entry; intersectingComponentRoutes returns the same
\* targets for every reordering of the observed list; an entry of one list
\* only is left out and Reconcile returns no error for it.
C26_AsStated ==
    joined.done =>
        /\ FollowsDesired(joined.componentRoutes)
        /\ \A o \in Reordered(Observed) :
              intersectingComponentRoutes(Desired, o) = joined.componentRoutes
        /\ ExcludedSilently

\* C26: the targets come in the order of the desired list, one per matching
\* desired entry; for every reordering of the observed list
\* intersectingComponentRoutes returns targets of the same names, hashes
\* and secrets in the same order, and with the same consumingUsers for
\* every key that the observed list holds once; an entry of one list only
\* is left out and Reconcile returns no error for it.
C26_TargetOrder ==
    joined.done =>
        /\ FollowsDesired(joined.componentRoutes)
        /\ \A o \in Reordered(Observed) :
              LET T == intersectingComponentRoutes(Desired, o)
              IN /\ FollowsDesired(T)
                 /\ \A j \in DOMAIN T :
                       T[j].Hash \notin {KeyHash(key) : key \in RepeatedObserved} =>
                           T[j] = joined.componentRoutes[j]
        /\ ExcludedSilently

\* the intersector returned two targets for two desired entries whose
\* observed entries stand in the opposite order
C26_Witness ==
    /\ joined.done
    /\ Len(joined.componentRoutes) = 2
    /\ Len(Desired) = 2 /\ Len(Observed) = 2
    /\ KeyOf(Desired[1]) = KeyOf(Observed[2])
    /\ KeyOf(Desired[2]) = KeyOf(Observed[1])
    /\ KeyOf(Desired[1]) # KeyOf(Desired[2])

----------------------------------------------------------------------------
(* C27 *)

\* the hostname a cluster admin can ask for in a spec entry
RequestedHostnames == {"www.testing.com", "other.testing.com"}

\* the hostname fields and conditions a status entry can carry
StatusHostnames ==
    {[DefaultHostname |-> "", CurrentHostnames |-> <<>>, Conditions |-> <<>>],
     [DefaultHostname |-> "www.testing.com", CurrentHostnames |-> <<"www.testing.com">>,
      Conditions |-> <<>>],
     [DefaultHostname |-> "foo.default.com", CurrentHostnames |-> <<"foo.default.com">>,
      Conditions |-> <<"Degraded">>]}

\* the Ingresses that differ from i in nothing but hostnames and conditions
HostnameVariants(i) ==
    {[i EXCEPT !.Spec.ComponentRoutes =
                   [n \in DOMAIN @ |-> [@[n] EXCEPT !.Hostname = hs[n]]],
               !.Status.ComponentRoutes =
                   [n \in DOMAIN @ |->
                       [@[n] EXCEPT !.DefaultHostname = hst[n].DefaultHostname,
                                    !.CurrentHostnames = hst[n].CurrentHostnames,
                                    !.Conditions = hst[n].Conditions]]]
     : hs \in [DOMAIN i.Spec.ComponentRoutes -> RequestedHostnames],
       hst \in [DOMAIN i.Status.ComponentRoutes -> StatusHostnames]}

\* C27: from the same roles and role-bindings, Reconcile of an Ingress and
\* Reconcile of any Ingress that differs from it only in the hostname of
\* spec entries and in the defaultHostname, currentHostnames and conditions
\* of status entries have the same outcomes: the same collaborator calls
\* with the same results, the same roles and role-bindings left, the same
\* Requeue and error; a spec hostname that no status hostname matches
\* changes nothing.
C27_HostnamesDoNotInterfere ==
    \A i \in ingress :
        \A v \in HostnameVariants(i) : Reconcile({v}, Start) = Reconcile({i}, Start)

\* a Reconcile has created the role and role-binding of an active target,
\* and the Ingress has a variant whose spec hostname is none of the
\* hostnames of its status
C27_Witness ==
    /\ Succeeded
    /\ \E key \in ActiveKeys : <<"create", "Role", KeyHash(key)>> \in last.did
    /\ \E i \in ingress : \E v \in HostnameVariants(i) :
          /\ v # i
          /\ \E n \in DOMAIN v.Spec.ComponentRoutes, k \in DOMAIN v.Status.ComponentRoutes :
                /\ KeyOf(v.Spec.ComponentRoutes[n]) = KeyOf(v.Status.ComponentRoutes[k])
                /\ v.Spec.ComponentRoutes[n].Hostname # v.Status.ComponentRoutes[k].DefaultHostname
                /\ v.Status.ComponentRoutes[k].CurrentHostnames
                       # <<v.Spec.ComponentRoutes[n].Hostname>>

----------------------------------------------------------------------------
(* C28 *)

\* the objects that carry the marker label with hash, in any namespace
Carrying(objs, hash) ==
    {o \in objs : /\ componentRouteHashLabelKey \in DOMAIN o.Labels
                  /\ o.Labels[componentRouteHashLabelKey] = hash}

\* the hashes on the objects of a store
HashesIn(objs) == {HashOf(o) : o \in objs} \ {""}

\* C28 as stated: whatever Config.SecretNamespace is, an object that a
\* Reconcile creates is selected by the list options of its hash, and right
\* after a Reconcile that returned no error a further Reconcile of the same
\* Ingress leaves no more roles and no more role-bindings of any hash than
\* there were.
C28_AsStated ==
    \A out \in Reconcile(ingress, Start) :
        /\ \A i \in DOMAIN out.calls :
              (out.calls[i].op = "create" /\ out.calls[i].res = "ok") =>
                  \E o \in Store(out, out.calls[i].kind) :
                      /\ o.Name = out.calls[i].name
                      /\ HashOf(o) = out.calls[i].hash
                      /\ Selects(componentRouteResources([Hash |-> HashOf(o)]), o)
        /\ Succeeded =>
              \A h \in HashesIn(out.roles \cup out.roleBindings) :
                  /\ Cardinality(Carrying(out.roles, h)) <= Cardinality(Carrying(roles, h))
                  /\ Cardinality(Carrying(out.roleBindings, h))
                         <= Cardinality(Carrying(roleBindings, h))

----------------------------------------------------------------------------
(* C29 *)

\* the calls that follow list call i up to the next list call
AfterList(calls, i) ==
    LET S == {j \in DOMAIN calls : j > i /\ calls[j].op = "list"}
        end == IF S = {} THEN Len(calls) + 1 ELSE CHOOSE j \in S : \A k \in S : j <= k
    IN (i + 1)..(end - 1)

\* where name stands in the names a list returned
PlaceIn(items, name) ==
    IF \E n \in DOMAIN items : items[n] = name
    THEN CHOOSE n \in DOMAIN items : items[n] = name
    ELSE 0

\* what follows a list of a target's roles or role-bindings: one create
\* when nothing was listed, else the deletes of Items[1:] in order and one
\* update of Items[0]; the run may stop anywhere in between
EnsureShape(calls, i) ==
    LET items == calls[i].items
    IN \A j \in AfterList(calls, i) :
          /\ calls[j].kind = calls[i].kind
          /\ IF Len(items) = 0 THEN j = i + 1 /\ calls[j].op = "create"
             ELSE \/ /\ j - i < Len(items)
                     /\ calls[j].op = "delete" /\ calls[j].name = items[j - i + 1]
                  \/ /\ j - i = Len(items)
                     /\ calls[j].op = "update" /\ calls[j].name = items[1]

\* what follows a list of the collector: deletes only, of listed objects, in
\* list order, at most one per object
CollectShape(calls, i) ==
    \A j \in AfterList(calls, i) :
        /\ calls[j].kind = calls[i].kind
        /\ calls[j].op = "delete"
        /\ PlaceIn(calls[i].items, calls[j].name) > 0
        /\ \A k \in AfterList(calls, i) :
              k < j => PlaceIn(calls[i].items, calls[k].name)
                           < PlaceIn(calls[i].items, calls[j].name)

\* the most calls a run can issue from the roles and role-bindings stored
CallBound ==
    LET n == Cardinality(roles) + Cardinality(roleBindings) + 2 * Len(Targets)
    IN 1 + Len(Targets) * (2 + n) + 2 + n

\* C29: every Reconcile ends after a bounded number of calls, issued one
\* after the other: the get of the Ingress first and once; for every target
\* one list of roles and one list of role-bindings, each followed by one
\* create or by the deletes of the duplicates and one update; then for each
\* kind one list of the collector followed by at most one delete per listed
\* object; a call that failed is not issued again.
C29_Terminates ==
    \A out \in Reconcile(ingress, Start) :
        LET calls == out.calls
            gc == CollectorStart(calls)
        IN /\ Len(calls) >= 1 /\ Len(calls) <= CallBound
           /\ \A i \in DOMAIN calls : calls[i].op = "get" <=> i = 1
           /\ \A i \in DOMAIN calls :
                 calls[i].op = "list" =>
                     IF i < gc
                     THEN /\ EnsureShape(calls, i)
                          /\ TargetAt(calls, i) \in DOMAIN Targets
                          /\ Cardinality({j \in 1..(gc - 1) :
                                             /\ calls[j].op = "list"
                                             /\ calls[j].kind = calls[i].kind
                                             /\ TargetAt(calls, j) = TargetAt(calls, i)}) = 1
                     ELSE /\ CollectShape(calls, i)
                          /\ Cardinality({j \in gc..Len(calls) :
                                             /\ calls[j].op = "list"
                                             /\ calls[j].kind = calls[i].kind}) = 1
           /\ \A i, j \in DOMAIN calls :
                 (i < j /\ calls[i].res # "ok") =>
                     ~(/\ calls[j].op = calls[i].op /\ calls[j].kind = calls[i].kind
                       /\ calls[j].name = calls[i].name /\ calls[j].hash = calls[i].hash)

\* a Reconcile returned no error after it deleted a duplicate role of an
\* active target, updated the role that was left and updated the
\* role-binding
C29_Witness ==
    /\ Succeeded
    /\ \E key \in ActiveKeys :
          /\ <<"delete", "Role", KeyHash(key)>> \in last.did
          /\ <<"update", "Role", KeyHash(key)>> \in last.did
          /\ <<"update", "RoleBinding", KeyHash(key)>> \in last.did

----------------------------------------------------------------------------
(* The legacy reconciler: roles and role-bindings named by the logical name *)
(* of the component route, without labels                                   *)

\* componentRouteTupleToSecretName after the first i spec entries
RECURSIVE componentRouteTupleToSecretName(_, _)
componentRouteTupleToSecretName(componentRoutes, i) ==
    IF i = 0 THEN [t \in {} |-> ""]
    ELSE LET m == componentRouteTupleToSecretName(componentRoutes, i - 1)
             tuple == <<componentRoutes[i].Namespace, componentRoutes[i].Name>>
         IN [t \in DOMAIN m \cup {tuple} |->
                IF t = tuple THEN componentRoutes[i].ServingCertKeyPairSecret.Name
                ELSE m[t]]

\* r.client.Get of a role or role-binding by name
clientGet(rs, kind, obj) ==
    {Logged(rs, Call("get", kind, obj.Name, "", "Error", <<>>), "Error", "", <<>>)}
    \cup {IF \E o \in Store(rs, kind) : SameObject(o, obj)
          THEN Logged(rs, Call("get", kind, obj.Name, "", "ok", <<obj.Name>>), NoErr, "",
                      <<CHOOSE o \in Store(rs, kind) : SameObject(o, obj)>>)
          ELSE Logged(rs, Call("get", kind, obj.Name, "", "NotFound", <<>>),
                      "NotFound", "", <<>>)}

\* the Role the legacy ensureServiceCertKeyPairSecretRole builds
legacyRole(crName, secretName) ==
    [Name |-> crName, GenerateName |-> "", Namespace |-> config.SecretNamespace,
     Labels |-> NoLabels, Rules |-> <<PolicyRule(secretName)>>]

\* the RoleBinding the legacy ensureServiceCertKeyPairSecretRoleBinding builds
legacyRoleBinding(roleName, users) ==
    [Name |-> roleName, GenerateName |-> "", Namespace |-> config.SecretNamespace,
     Labels |-> NoLabels, Subjects |-> subjectsOf(users), RoleRef |-> RoleRef(roleName)]

\* create; on AlreadyExists get the existing object and update it
legacyCreateOrUpdate(rs, kind, obj) ==
    LET updated(existing) == IF kind = "Role" THEN updatedRole(existing, obj)
                             ELSE updatedRoleBinding(existing, obj)
    IN UNION {IF c.err # "AlreadyExists" THEN {c}
              ELSE Then(clientGet([c EXCEPT !.err = NoErr], kind, obj),
                        LAMBDA g : clientUpdate(g, kind, updated(g.items[1])))
              : c \in clientCreate(rs, kind, obj)}

legacyEnsureServiceCertKeyPairSecretRole(rs, crName, secretName) ==
    legacyCreateOrUpdate(rs, "Role", legacyRole(crName, secretName))

legacyEnsureServiceCertKeyPairSecretRoleBinding(rs, roleName, users) ==
    legacyCreateOrUpdate(rs, "RoleBinding", legacyRoleBinding(roleName, users))

\* deleteServiceKeyPairSecretRole, deleteServiceKeyPairSecretRoleBinding:
\* NotFound is no error
legacyDelete(rs, kind, name) ==
    {[d EXCEPT !.err = IF IsNotFound(d.err) THEN NoErr ELSE d.err]
     : d \in clientDelete(rs, kind, [Name |-> name, Namespace |-> config.SecretNamespace,
                                     Labels |-> NoLabels])}

\* the loop over ingress.Status.ComponentRoutes
RECURSIVE legacyEach(_, _, _)
legacyEach(rs, tupleToSecretName, componentRoutes) ==
    IF componentRoutes = <<>> THEN {rs}
    ELSE LET componentRoute == Head(componentRoutes)
             tuple == <<componentRoute.Namespace, componentRoute.Name>>
             next(r) == legacyEach(r, tupleToSecretName, Tail(componentRoutes))
         IN IF tuple \notin DOMAIN tupleToSecretName
            THEN Then(Then(legacyDelete(rs, "Role", componentRoute.Name),
                           LAMBDA d : legacyDelete(d, "RoleBinding", componentRoute.Name)),
                      next)
            ELSE Then(Then(legacyEnsureServiceCertKeyPairSecretRole(
                               rs, componentRoute.Name, tupleToSecretName[tuple]),
                           LAMBDA e : legacyEnsureServiceCertKeyPairSecretRoleBinding(
                                          e, componentRoute.Name,
                                          componentRoute.ConsumingUsers)),
                      next)

\* every (Result, error) the legacy Reconcile can return, with the objects
\* it leaves
legacyReconcile(stored, rs) ==
    LET converge(g) ==
            LET in == CHOOSE i \in stored : TRUE
                m == componentRouteTupleToSecretName(in.Spec.ComponentRoutes,
                                                     Len(in.Spec.ComponentRoutes))
            IN {Result(e, e.err # NoErr) : e \in legacyEach(g, m, in.Status.ComponentRoutes)}
    IN UNION {IF g.err # NoErr
              THEN IF IsNotFound(g.err)
                   THEN {Result([g EXCEPT !.err = NoErr], FALSE)}
                   ELSE {Result([g EXCEPT !.wrap = "failed to get ingress"], FALSE)}
              ELSE converge(g)
              : g \in cacheGet(rs, stored)}

\* an Ingress whose component routes are of two namespaces, one name in both
InitLegacy ==
    /\ config = [SecretNamespace |-> OpenShiftConfigNamespace]
    /\ ingress \in {{Ingress(d, s)} : d \in ListsOver(WideSpecEntries),
                                      s \in ListsOver(WideStatusEntries)}
    /\ roles = {}
    /\ roleBindings = {}
    /\ last = NoRun
    /\ served = {}
    /\ budget = 0
    /\ joined = NotJoined
    /\ queued = TRUE
    /\ faults = 0
    /\ workers = NoWorkers

\* the legacy controller handles one request for the Ingress
LegacyReconcileRequest ==
    \E out \in legacyReconcile(ingress, Start) :
        /\ roles' = out.roles
        /\ roleBindings' = out.roleBindings
        /\ last' = [ran |-> TRUE, Requeue |-> out.Requeue, err |-> out.err,
                    wrap |-> out.wrap, did |-> Did(out.calls)]
        /\ UNCHANGED <<config, ingress, served, budget, joined, workers, queued, faults>>

SpecLegacy == InitLegacy /\ [][LegacyReconcileRequest]_vars

----------------------------------------------------------------------------
(* C30 *)

\* the objects of objs named name in the secret namespace
Named(objs, name) == {o \in objs : o.Name = name /\ o.Namespace = config.SecretNamespace}

\* C30: when the legacy Reconcile returns without error, then for every
\* (namespace,name) that a status entry and a spec entry share there are a
\* role and a role-binding named by the entry's name in the secret
\* namespace, the role restricted to the secret of the spec entry, the
\* role-binding with the status entry's consumingUsers as subjects and a
\* roleRef that names the role; also when entries of different namespaces
\* share a name.  Where a list holds a (namespace,name) more than once its
\* last entry is the one compared.
C30_AsStated ==
    \A out \in legacyReconcile(ingress, Start) :
        (out.err = NoErr /\ ingress # {}) =>
            \A key \in ActiveKeys :
                /\ \E role \in Named(out.roles, key[2]) :
                      GrantsSecret(role, LastDesired(key).ServingCertKeyPairSecret.Name)
                /\ \E roleBinding \in Named(out.roleBindings, key[2]) :
                      /\ BindsUsers(roleBinding, LastObserved(key).ConsumingUsers)
                      /\ roleBinding.RoleRef = RoleRef(key[2])

----------------------------------------------------------------------------
(* C31 *)

\* the run issued a delete of the object of kind named name that ended in
\* one of the results
DeleteIssued(calls, kind, name, results) ==
    \E n \in DOMAIN calls :
        /\ calls[n].op = "delete" /\ calls[n].kind = kind
        /\ calls[n].name = name /\ calls[n].res \in results

\* the status entries without a spec entry of their (namespace,name)
StatusOnly == {i \in DOMAIN Observed : KeyOf(Observed[i]) \notin ActiveKeys}

\* C31: the legacy Reconcile, when it returns without error, has issued for
\* every status entry that has no spec entry of its (namespace,name) a
\* delete of the role and of the role-binding named after the entry, a
\* NotFound counting as success; and it has deleted no role and no
\* role-binding named after a status entry that has a matching spec entry:
\* those objects are there when it returns.
C31_AsStated ==
    \A out \in legacyReconcile(ingress, Start) :
        (out.err = NoErr /\ ingress # {}) =>
            /\ \A i \in StatusOnly :
                  /\ DeleteIssued(out.calls, "Role", Observed[i].Name, {"ok", "NotFound"})
                  /\ DeleteIssued(out.calls, "RoleBinding", Observed[i].Name, {"ok", "NotFound"})
            /\ \A key \in ActiveKeys :
                  /\ ~DeleteIssued(out.calls, "Role", key[2], {"ok"})
                  /\ ~DeleteIssued(out.calls, "RoleBinding", key[2], {"ok"})
                  /\ Named(out.roles, key[2]) # {}
                  /\ Named(out.roleBindings, key[2]) # {}

====
